---- MODULE Spec2Model ----
(***************************************************************************)
(* Journaling assistant: entry store (chat_logs, message_sentiments),      *)
(* profile statistics and achievement engine (gamification.py).            *)
(*                                                                         *)
(* Numbers.  Python floats are modelled exactly:                           *)
(*   - a classifier score, a channel and confidence are integers in units  *)
(*     of 1/ScoreScale;                                                    *)
(*   - compound_score is an integer in units of 1/CompoundDen              *)
(*     (CompoundDen = 12 * ScoreScale: the means over 3 and 4 channels);   *)
(*   - intensity is an integer in units of 1/IntensityDen;                 *)
(*   - avg_sentiment (in compound units), reflection_score and progress    *)
(*     are rationals [num, den] in lowest terms, den > 0.                  *)
(* Time.  A timestamp is a day number; rows created in one handler run get *)
(* increasing ids, and the id order is the timestamp order.                *)
(***************************************************************************)
EXTENDS Integers, Sequences, FiniteSets, TLC

VARIABLES
    now,                \* datetime.now(UTC).date(), a day number
    chat_logs,          \* table chat_logs (models.ChatLog), committed rows
    message_sentiments, \* table message_sentiments (models.MessageSentiment)
    user_profiles,      \* table user_profiles (models.UserProfile)
    user_achievements,  \* table user_achievements (models.UserAchievement)
    future_messages,    \* table future_messages (models.FutureMessage)
    user_feedback,      \* table user_feedback (models.Feedback)
    result,             \* how the last handler run ended for its caller
    returned,           \* the value the last read-only operation returned
    sentiment_pipeline, \* sentiment_pipeline(text)[0] for the text in hand,
                        \* when the classifier is looked at on its own
    memory_capsules,    \* table of MemoryCapsule rows
    capsule_entries,    \* table of CapsuleEntry rows (capsule - entry links)
    managers,           \* per GamificationManager session: where its
                        \* update_profile_stats run stands and what it loaded
    theme_response      \* what the theme generator call gives for the text
                        \* in hand, when analyze_sentiment is looked at

vars == <<now, chat_logs, message_sentiments, user_profiles,
          user_achievements, future_messages, user_feedback, result, returned,
          sentiment_pipeline,
                   memory_capsules, capsule_entries, managers, theme_response>>

----------------------------------------------------------------------------
(* Bounds of the model *)

MaxDay == 2      \* days the clock runs through: 0..MaxDay
MaxLogs == 1     \* submissions that commit (message_sentiments never shrinks)

Users == {"u1", "u2"}

\* message.author.name for a user id (bot.on_message, bot commands)
AuthorName(u) == IF u = "u1" THEN "alice" ELSE "bob"

----------------------------------------------------------------------------
(* Rationals *)

\* n / d in lowest terms (d > 0)
RECURSIVE GCD(_, _)
GCD(a, b) == IF b = 0 THEN a ELSE GCD(b, a % b)
Rat(n, d) ==
    LET g == GCD(IF n < 0 THEN -n ELSE n, d)
    IN [num |-> n \div g, den |-> d \div g]
RLt(a, b) == a.num * b.den < b.num * a.den
RLeq(a, b) == a.num * b.den <= b.num * a.den
REq(a, b) == a.num * b.den = b.num * a.den
RSub(a, b) == Rat(a.num * b.den - b.num * a.den, a.den * b.den)
RAbs(a) == [num |-> (IF a.num < 0 THEN -a.num ELSE a.num), den |-> a.den]
RMin(a, b) == IF RLeq(a, b) THEN a ELSE b
RMax(a, b) == IF RLeq(a, b) THEN b ELSE a

Abs(x) == IF x < 0 THEN -x ELSE x
Max2(a, b) == IF a >= b THEN a ELSE b
Min2(a, b) == IF a <= b THEN a ELSE b

RECURSIVE SumSeq(_)
SumSeq(s) == IF s = <<>> THEN 0 ELSE Head(s) + SumSeq(Tail(s))

MaxOfSet(S) == CHOOSE x \in S : \A y \in S : y <= x
MinOfSet(S) == CHOOSE x \in S : \A y \in S : x <= y

\* the next rowid of a table: one more than the largest id in it
NextId(rows) == IF rows = {} THEN 1 ELSE MaxOfSet({r.id : r \in rows}) + 1

\* the rows of a table in id order (a query without ORDER BY)
RECURSIVE RowsById(_)
RowsById(rows) ==
    IF rows = {} THEN <<>>
    ELSE LET r == CHOOSE x \in rows : \A y \in rows : x.id <= y.id
         IN <<r>> \o RowsById(rows \ {r})

----------------------------------------------------------------------------
(* sentiment_analyzer.py *)

ScoreScale == 10
CompoundDen == 12 * ScoreScale
IntensityDen == 8 * ScoreScale

\* the 8 channels, in the order of plutchik_mapping's keys
Channels == <<"joy", "trust", "fear", "surprise",
              "sadness", "disgust", "anger", "anticipation">>
ChannelSet == {Channels[i] : i \in 1..Len(Channels)}

plutchik_mapping ==
    [joy          |-> {"joy", "excitement", "love"},
     trust        |-> {"admiration", "approval", "gratitude"},
     fear         |-> {"fear", "nervousness", "worry"},
     surprise     |-> {"surprise", "confusion", "amazement"},
     sadness      |-> {"sadness", "disappointment", "grief"},
     disgust      |-> {"disgust", "disapproval", "annoyance"},
     anger        |-> {"anger", "rage", "hate"},
     anticipation |-> {"curiosity", "interest", "anticipation"}]

_normalize_score(score) == Max2(Min2(score, CompoundDen), -CompoundDen)

\* a variant of the aggregation: a later score of a channel replaces the
\* earlier one
RECURSIVE _aggregate_emotions_Last(_)
_aggregate_emotions_Last(emotions) ==
    IF emotions = <<>> THEN [c \in ChannelSet |-> 0]
    ELSE LET n == Len(emotions)
             prev == _aggregate_emotions_Last(SubSeq(emotions, 1, n - 1))
             e == emotions[n]
         IN [c \in ChannelSet |->
                IF e.label \in plutchik_mapping[c] THEN e.score ELSE prev[c]]

\* emotions: the classifier's list of [label, score]
RECURSIVE _aggregate_emotions(_)
_aggregate_emotions(emotions) ==
    IF emotions = <<>> THEN [c \in ChannelSet |-> 0]
    ELSE LET n == Len(emotions)
             prev == _aggregate_emotions(SubSeq(emotions, 1, n - 1))
             e == emotions[n]
         IN [c \in ChannelSet |->
                IF e.label \in plutchik_mapping[c]
                THEN Max2(prev[c], e.score) ELSE prev[c]]

\* max(emotions, key=score) raises ValueError on an empty list
analyze_raises(emotions) == emotions = <<>>

\* a variant of analyze: surprise counts among the negative channels
analyze_SurpriseNegative(emotions) ==
    LET plutchik_scores == _aggregate_emotions(emotions)
        positive == plutchik_scores["joy"] + plutchik_scores["trust"]
                    + plutchik_scores["anticipation"]
        negative == plutchik_scores["fear"] + plutchik_scores["sadness"]
                    + plutchik_scores["disgust"] + plutchik_scores["anger"]
                    + plutchik_scores["surprise"]
    IN [emotions       |-> plutchik_scores,
        compound_score |-> _normalize_score(4 * positive - 3 * negative),
        intensity      |-> SumSeq([i \in 1..Len(Channels) |->
                                      plutchik_scores[Channels[i]]]),
        confidence     |-> MaxOfSet({emotions[i].score : i \in 1..Len(emotions)})]

analyze(emotions) ==
    LET plutchik_scores == _aggregate_emotions(emotions)
        positive == plutchik_scores["joy"] + plutchik_scores["trust"]
                    + plutchik_scores["anticipation"]
        negative == plutchik_scores["fear"] + plutchik_scores["sadness"]
                    + plutchik_scores["disgust"] + plutchik_scores["anger"]
    IN [emotions       |-> plutchik_scores,
        compound_score |-> _normalize_score(4 * positive - 3 * negative),
        intensity      |-> SumSeq([i \in 1..Len(Channels) |->
                                      plutchik_scores[Channels[i]]]),
        confidence     |-> MaxOfSet({emotions[i].score : i \in 1..Len(emotions)})]

\* the MessageSentiment row create_sentiment_record adds for an entry
create_sentiment_record(id, chat_log_id, emotions) ==
    LET analysis == analyze(emotions)
    IN [id             |-> id,
        chat_log_id    |-> chat_log_id,
        emotions       |-> analysis.emotions,
        confidence     |-> analysis.confidence,
        intensity      |-> analysis.intensity,
        compound_score |-> analysis.compound_score]

----------------------------------------------------------------------------
(* Inputs: the texts users submit, and what the classifier returns for them *)

Texts == {"glad", "grieving"}

\* further texts, read by the analyses: "torn" scores two channels alike,
\* "thrilled" is strongly positive, "moved" holds an event keyword
TrendTexts == Texts \cup {"torn"}
StoryTexts == Texts \cup {"thrilled", "moved"}

\* len(message_content.split())
WordCount(t) == IF t = "grieving" THEN 10000 ELSE 5

\* sentiment_pipeline(text)[0]: the model is stateless, one output per text
Classify(t) ==
    CASE t = "glad" ->
           <<[label |-> "joy", score |-> 9], [label |-> "neutral", score |-> 2]>>
      [] t = "grieving" ->
           <<[label |-> "grief", score |-> 8], [label |-> "fear", score |-> 4],
             [label |-> "neutral", score |-> 1]>>
      [] t = "torn" ->
           <<[label |-> "fear", score |-> 5], [label |-> "joy", score |-> 5]>>
      [] t = "thrilled" ->
           <<[label |-> "joy", score |-> ScoreScale],
             [label |-> "admiration", score |-> ScoreScale]>>
      [] t = "moved" ->
           <<[label |-> "surprise", score |-> 6],
             [label |-> "sadness", score |-> 3]>>

\* any(keyword in message_content.lower() for keyword in event_keywords)
HasEventKeyword(t) == t = "moved"

----------------------------------------------------------------------------
(* models.py: rows and relationships *)

NullId == 0      \* a NULL foreign key
NoDate == -1     \* a NULL DateTime
NoValue == [op |-> "none"]   \* nothing returned (yet, or because of a raise)

\* the GamificationManager sessions, none of them inside a run
Managers == {"m1", "m2"}
IdleManager == [pc |-> "idle", runs |-> 0, user_id |-> "",
                profile |-> NoValue, loaded |-> {}]
IdleManagers == [m \in Managers |-> IdleManager]

\* ChatLog.sentiment (uselist=False): the first row whose chat_log_id is the
\* entry's id, in rowid order
SentimentsOf(e) == {s \in message_sentiments : s.chat_log_id = e.id}
HasSentiment(e) == SentimentsOf(e) # {}
Sentiment(e) ==
    CHOOSE s \in SentimentsOf(e) : \A t \in SentimentsOf(e) : s.id <= t.id

\* query(ChatLog).filter_by(user_id=u).all()
EntriesOf(u) == RowsById({e \in chat_logs : e.user_id = u})

\* UserProfile(user_id, username): the column defaults of models.UserProfile
NewUserProfile(u, username) ==
    [user_id          |-> u,
     username         |-> username,
     total_entries    |-> 0,
     total_words      |-> 0,
     avg_sentiment    |-> Rat(0, 1),
     streak_days      |-> 0,
     longest_streak   |-> 0,
     last_entry_date  |-> NoDate,
     reflection_score |-> Rat(0, 1)]

\* UserAchievement(user_id, achievement_id, progress): earned_at is not
\* passed by either caller, so the column default stamps it at insertion
NewUserAchievement(id, u, achievement_id, progress) ==
    [id             |-> id,
     user_id        |-> u,
     achievement_id |-> achievement_id,
     earned_at      |-> now,
     progress       |-> progress]

HasProfile(u) == \E p \in user_profiles : p.user_id = u
ProfileOf(u) == CHOOSE p \in user_profiles : p.user_id = u

\* UserProfile.achievements: every user_achievements row of the user
ProfileAchievements(u) == {ua \in user_achievements : ua.user_id = u}

----------------------------------------------------------------------------
(* gamification.py *)

\* _init_achievements: the seeded catalog, ids in insertion order
Achievements ==
    <<[id |-> 1, name |-> "First Step",
       criteria_type |-> "total_entries", criteria_value |-> 1],
      [id |-> 2, name |-> "Consistent Journaler",
       criteria_type |-> "streak", criteria_value |-> 7],
      [id |-> 3, name |-> "Dedicated Diarist",
       criteria_type |-> "streak", criteria_value |-> 30],
      [id |-> 4, name |-> "Deep Thinker",
       criteria_type |-> "reflection_score", criteria_value |-> 90],
      [id |-> 5, name |-> "Wordsmith",
       criteria_type |-> "total_words", criteria_value |-> 10000],
      [id |-> 6, name |-> "Emotional Explorer",
       criteria_type |-> "emotion_variety", criteria_value |-> 6],
      [id |-> 7, name |-> "Growth Mindset",
       criteria_type |-> "sentiment_trend", criteria_value |-> 30],
      [id |-> 8, name |-> "Century Club",
       criteria_type |-> "total_entries", criteria_value |-> 100]>>

AchievementIds == {Achievements[i].id : i \in 1..Len(Achievements)}
AchievementById(id) ==
    Achievements[CHOOSE i \in 1..Len(Achievements) : Achievements[i].id = id]

\* the streak loop over the sorted dates, from index i on:
\* [current_streak, max_streak] after the loop
RECURSIVE StreakLoop(_, _, _, _)
StreakLoop(dates, i, current_streak, max_streak) ==
    IF i > Len(dates)
    THEN [current_streak |-> current_streak, max_streak |-> max_streak]
    ELSE IF dates[i] - dates[i - 1] = 1
         THEN StreakLoop(dates, i + 1, current_streak + 1,
                         Max2(max_streak, current_streak + 1))
         ELSE StreakLoop(dates, i + 1, 1, max_streak)

\* lines 139-157: [current_streak, max_streak] of a list of entries
Streaks(entries, today) ==
    IF entries # <<>>
    THEN LET dates == SortSeq([i \in 1..Len(entries) |-> entries[i].date],
                              LAMBDA a, b : a < b)
             looped == StreakLoop(dates, 2, 1, 1)
         IN IF today - dates[Len(dates)] > 1
            THEN [current_streak |-> 0, max_streak |-> looped.max_streak]
            ELSE looped
    ELSE [current_streak |-> 0, max_streak |-> 0]

\* compound scores of the entries that have a sentiment, in entry order
CompoundScores(entries) ==
    LET withS == SelectSeq(entries, HasSentiment)
    IN [i \in 1..Len(withS) |-> Sentiment(withS[i]).compound_score]

SeqRange(s) == {s[i] : i \in 1..Len(s)}

\* lines 168-180: the reflection score of the latest entry
ReflectionScore(entries, sentiments) ==
    LET latest_entry == entries[Len(entries)]
        sentiment_range ==
            IF sentiments # <<>>
            THEN MaxOfSet(SeqRange(sentiments)) - MinOfSet(SeqRange(sentiments))
            ELSE 0
    IN IF HasSentiment(latest_entry)
       THEN RMin(Rat(100, 1),
                 Rat(latest_entry.words * CompoundDen
                     + 150 * sentiment_range
                     + 150 * Abs(Sentiment(latest_entry).compound_score),
                     5 * CompoundDen))
       ELSE Rat(0, 1)

\* a variant of the update: the longest streak is the one of the stored entries
UpdatedProfile_LongestFromEntries(profile, today) ==
    LET entries == EntriesOf(profile.user_id)
        sentiments == CompoundScores(entries)
        streaks == Streaks(entries, today)
    IN [profile EXCEPT
          !.total_entries = Len(entries),
          !.total_words = SumSeq([i \in 1..Len(entries) |-> entries[i].words]),
          !.avg_sentiment = IF sentiments # <<>>
                            THEN Rat(SumSeq(sentiments), Len(sentiments))
                            ELSE Rat(0, 1),
          !.streak_days = streaks.current_streak,
          !.longest_streak = streaks.max_streak,
          !.last_entry_date = IF entries # <<>>
                              THEN entries[Len(entries)].date ELSE NoDate,
          !.reflection_score = IF entries # <<>>
                               THEN ReflectionScore(entries, sentiments)
                               ELSE profile.reflection_score]

\* a variant of the recomputation: the streak found is added to the
\* longest streak the profile held
UpdatedProfile_StreakAdds(profile, today) ==
    LET entries == EntriesOf(profile.user_id)
        sentiments == CompoundScores(entries)
        streaks == Streaks(entries, today)
    IN [profile EXCEPT
          !.total_entries = Len(entries),
          !.total_words = SumSeq([i \in 1..Len(entries) |-> entries[i].words]),
          !.avg_sentiment = IF sentiments # <<>>
                            THEN Rat(SumSeq(sentiments), Len(sentiments))
                            ELSE Rat(0, 1),
          !.streak_days = streaks.current_streak,
          !.longest_streak = streaks.max_streak + profile.longest_streak,
          !.last_entry_date = IF entries # <<>>
                              THEN entries[Len(entries)].date ELSE NoDate,
          !.reflection_score = IF entries # <<>>
                               THEN ReflectionScore(entries, sentiments)
                               ELSE profile.reflection_score]

\* lines 129-180: the profile as update_profile_stats commits it
UpdatedProfile(profile, today) ==
    LET entries == EntriesOf(profile.user_id)
        sentiments == CompoundScores(entries)
        streaks == Streaks(entries, today)
    IN [profile EXCEPT
          !.total_entries = Len(entries),
          !.total_words = SumSeq([i \in 1..Len(entries) |-> entries[i].words]),
          !.avg_sentiment = IF sentiments # <<>>
                            THEN Rat(SumSeq(sentiments), Len(sentiments))
                            ELSE Rat(0, 1),
          !.streak_days = streaks.current_streak,
          !.longest_streak = Max2(streaks.max_streak, profile.longest_streak),
          !.last_entry_date = IF entries # <<>>
                              THEN entries[Len(entries)].date ELSE NoDate,
          !.reflection_score = IF entries # <<>>
                               THEN ReflectionScore(entries, sentiments)
                               ELSE profile.reflection_score]

\* a variant of the skip test: it compares the row's own id with the achievement's
AlreadyHasRow_ByRowId(loaded, achievement) ==
    \E ua \in loaded : ua.id = achievement.id

\* a variant of the skip test: it only counts rows whose progress is 100
AlreadyHasRow_EarnedOnly(loaded, achievement) ==
    \E ua \in loaded :
        ua.achievement_id = achievement.id /\ REq(ua.progress, Rat(100, 1))

\* line 201: "skip if already earned" looks for any row of the profile
AlreadyHasRow(loaded, achievement) ==
    \E ua \in loaded : ua.achievement_id = achievement.id

\* a variant of the dominant channel: the last maximum in channel order
DominantEmotion_Last(sentiment) ==
    Channels[CHOOSE i \in 1..Len(Channels) :
        /\ \A j \in 1..Len(Channels) :
              sentiment.emotions[Channels[j]] <= sentiment.emotions[Channels[i]]
        /\ \A j \in (i + 1)..Len(Channels) :
              sentiment.emotions[Channels[j]] < sentiment.emotions[Channels[i]]]

\* lines 237-240: max(channel list, key=score) keeps the first maximum
DominantEmotion(sentiment) ==
    Channels[CHOOSE i \in 1..Len(Channels) :
        /\ \A j \in 1..Len(Channels) :
              sentiment.emotions[Channels[j]] <= sentiment.emotions[Channels[i]]
        /\ \A j \in 1..(i - 1) :
              sentiment.emotions[Channels[j]] < sentiment.emotions[Channels[i]]]

EmotionVarietyLimit == 10
TrendWindowDays == 30
TrendMinEntries == 10
TrendScale == 1000
TrendEarnedProgress == 50

\* lines 226-240: distinct dominant emotions of the 10 most recent entries
EmotionVariety(u) ==
    LET entries == EntriesOf(u)
        n == Len(entries)
        recent == SubSeq(entries, Max2(1, n - EmotionVarietyLimit + 1), n)
    IN {DominantEmotion(Sentiment(recent[i])) :
           i \in {j \in 1..Len(recent) : HasSentiment(recent[j])}}

\* lines 247-272: [earned, progress] of the sentiment_trend criterion
SentimentTrend(u, today) ==
    LET all == EntriesOf(u)
        entries == SelectSeq(all, LAMBDA e : e.date >= today - TrendWindowDays)
        y == CompoundScores(entries)
        n == Len(y)
        sx == SumSeq([i \in 1..n |-> i - 1])
        sy == SumSeq(y)
        sxy == SumSeq([i \in 1..n |-> (i - 1) * y[i]])
        sxx == SumSeq([i \in 1..n |-> (i - 1) * (i - 1)])
        slopeNum == n * sxy - sx * sy            \* slope = slopeNum / slopeDen
        slopeDen == (n * sxx - sx * sx) * CompoundDen
        progress == RMax(Rat(0, 1),
                         RMin(Rat(100, 1), Rat(TrendScale * slopeNum, slopeDen)))
    IN IF Len(entries) >= TrendMinEntries /\ n > 1
       THEN [earned   |-> slopeNum > 0
                          /\ RLeq(Rat(TrendEarnedProgress, 1), progress),
             progress |-> progress]
       ELSE [earned |-> FALSE, progress |-> Rat(0, 1)]

\* a variant of the evaluation: the total_words progress is computed from total_entries
Evaluate_WordsFromEntries(achievement, profile, today) ==
    LET t == achievement.criteria_type
        v == achievement.criteria_value
    IN CASE t = "total_entries" ->
              [earned   |-> profile.total_entries >= v,
               progress |-> Rat(profile.total_entries * 100, v)]
         [] t = "streak" ->
              [earned   |-> profile.streak_days >= v,
               progress |-> Rat(profile.streak_days * 100, v)]
         [] t = "reflection_score" ->
              [earned   |-> RLeq(Rat(v, 1), profile.reflection_score),
               progress |-> Rat(profile.reflection_score.num * 100,
                                profile.reflection_score.den * v)]
         [] t = "total_words" ->
              [earned   |-> profile.total_words >= v,
               progress |-> Rat(profile.total_entries * 100, v)]
         [] t = "emotion_variety" ->
              [earned   |-> Cardinality(EmotionVariety(profile.user_id)) >= v,
               progress |-> Rat(Cardinality(EmotionVariety(profile.user_id)) * 100, v)]
         [] t = "sentiment_trend" -> SentimentTrend(profile.user_id, today)
         [] OTHER -> [earned |-> FALSE, progress |-> Rat(0, 1)]

\* lines 205-272: [earned, progress] of one achievement for a profile
Evaluate(achievement, profile, today) ==
    LET t == achievement.criteria_type
        v == achievement.criteria_value
    IN CASE t = "total_entries" ->
              [earned   |-> profile.total_entries >= v,
               progress |-> Rat(profile.total_entries * 100, v)]
         [] t = "streak" ->
              [earned   |-> profile.streak_days >= v,
               progress |-> Rat(profile.streak_days * 100, v)]
         [] t = "reflection_score" ->
              [earned   |-> RLeq(Rat(v, 1), profile.reflection_score),
               progress |-> Rat(profile.reflection_score.num * 100,
                                profile.reflection_score.den * v)]
         [] t = "total_words" ->
              [earned   |-> profile.total_words >= v,
               progress |-> Rat(profile.total_words * 100, v)]
         [] t = "emotion_variety" ->
              [earned   |-> Cardinality(EmotionVariety(profile.user_id)) >= v,
               progress |-> Rat(Cardinality(EmotionVariety(profile.user_id)) * 100, v)]
         [] t = "sentiment_trend" -> SentimentTrend(profile.user_id, today)
         [] OTHER -> [earned |-> FALSE, progress |-> Rat(0, 1)]

\* lines 275-302: the rows after the pass has handled one achievement
StoreOrAward(rows, profile, achievement, ev) ==
    LET mine == {ua \in rows : /\ ua.user_id = profile.user_id
                               /\ ua.achievement_id = achievement.id}
    IN IF ev.earned
       THEN rows \cup {NewUserAchievement(NextId(rows), profile.user_id,
                                          achievement.id, Rat(100, 1))}
       ELSE IF mine # {}
            THEN LET existing_progress ==
                         CHOOSE ua \in mine : \A o \in mine : ua.id <= o.id
                 IN (rows \ {existing_progress})
                    \cup {[existing_progress EXCEPT !.progress = ev.progress]}
            ELSE rows \cup {NewUserAchievement(NextId(rows), profile.user_id,
                                               achievement.id, ev.progress)}

\* lines 199-302: the loop over all achievements from index i on; loaded is
\* profile.achievements as loaded at the first iteration
RECURSIVE CheckLoop(_, _, _, _, _)
CheckLoop(i, profile, loaded, rows, today) ==
    IF i > Len(Achievements) THEN rows
    ELSE IF AlreadyHasRow(loaded, Achievements[i])
         THEN CheckLoop(i + 1, profile, loaded, rows, today)
         ELSE CheckLoop(i + 1, profile, loaded,
                        StoreOrAward(rows, profile, Achievements[i],
                                     Evaluate(Achievements[i], profile, today)),
                        today)

\* the ids of the achievements a pass evaluates (does not skip)
EvaluatedIds(loaded) ==
    {id \in AchievementIds : ~AlreadyHasRow(loaded, AchievementById(id))}

\* new_achievements, the list check_achievements returns (as a set of ids)
NewAchievements(profile, loaded, today) ==
    {id \in EvaluatedIds(loaded) :
        Evaluate(AchievementById(id), profile, today).earned}

----------------------------------------------------------------------------
(* Entry submission: journal_analyzer.log_entry and bot.on_message *)

\* ChatLog(user_id, username, message_content, bot_response, timestamp).
\* message_content is the text, kept with its word count; username is the
\* user id in log_entry and the author's name in on_message; bot_response
\* is read by none of the operations below and is left out of the row.
NewChatLog(id, u, username, t) ==
    [id |-> id, user_id |-> u, username |-> username, text |-> t,
     words |-> WordCount(t), date |-> now]

\* a variant of the submission: the ChatLog is committed where the code flushes it, so a failing
\* classification leaves the entry behind
SubmitEntry_CommitOnFlush(u, username, t, classifier_fails) ==
    LET chat_log == NewChatLog(NextId(chat_logs), u, username, t)
        flushed == chat_logs \cup {chat_log}
        raised == classifier_fails \/ analyze_raises(Classify(t))
    IN IF raised
       THEN [raised |-> TRUE,
             chat_logs |-> flushed,
             message_sentiments |-> message_sentiments]
       ELSE [raised |-> FALSE,
             chat_logs |-> flushed,
             message_sentiments |->
                 message_sentiments \cup
                 {create_sentiment_record(NextId(message_sentiments),
                                          chat_log.id, Classify(t))}]

\* The session of one submission: the ChatLog is added and flushed, the
\* classifier runs, the MessageSentiment is added, and commit() makes both
\* visible; an exception before commit() leaves the tables as they were.
\* classifier_fails: the pipeline call raises.
SubmitEntry(u, username, t, classifier_fails) ==
    LET chat_log == NewChatLog(NextId(chat_logs), u, username, t)
        flushed == chat_logs \cup {chat_log}
        raised == classifier_fails \/ analyze_raises(Classify(t))
    IN IF raised
       THEN [raised |-> TRUE,
             chat_logs |-> chat_logs,
             message_sentiments |-> message_sentiments]
       ELSE [raised |-> FALSE,
             chat_logs |-> flushed,
             message_sentiments |->
                 message_sentiments \cup
                 {create_sentiment_record(NextId(message_sentiments),
                                          chat_log.id, Classify(t))}]

\* log_entry(user_id, entry_text): try/finally, the exception propagates
LogEntry(u, t, classifier_fails) ==
    LET done == SubmitEntry(u, u, t, classifier_fails)
    IN /\ done.raised \/ Cardinality(message_sentiments) < MaxLogs
       /\ chat_logs' = done.chat_logs
       /\ message_sentiments' = done.message_sentiments
       /\ result' = IF done.raised THEN "raised" ELSE "ok"
       /\ UNCHANGED <<now, user_profiles, user_achievements,
                      future_messages, user_feedback, returned, sentiment_pipeline,
                   memory_capsules, capsule_entries, managers, theme_response>>

\* on_message(message): except Exception -> rollback and an error reply;
\* agent_fails: agent.run raises before the entry is created
OnMessage(u, t, agent_fails, classifier_fails) ==
    LET done == SubmitEntry(u, AuthorName(u), t, classifier_fails)
    IN /\ agent_fails \/ done.raised
          \/ Cardinality(message_sentiments) < MaxLogs
       /\ chat_logs' = IF agent_fails THEN chat_logs ELSE done.chat_logs
       /\ message_sentiments' = IF agent_fails THEN message_sentiments
                                ELSE done.message_sentiments
       /\ result' = IF agent_fails \/ done.raised THEN "error_reply" ELSE "ok"
       /\ UNCHANGED <<now, user_profiles, user_achievements,
                      future_messages, user_feedback, returned, sentiment_pipeline,
                   memory_capsules, capsule_entries, managers, theme_response>>

----------------------------------------------------------------------------
(* bot.clear *)

\* the user's entries ordered by timestamp, newest first
EntriesNewestFirst(u) ==
    LET asc == EntriesOf(u)
    IN [i \in 1..Len(asc) |-> asc[Len(asc) + 1 - i]]

\* !clear and !clear journal: a bulk DELETE of the user's chat_logs rows
\* (and, for !clear, of the user's future_messages rows); message_sentiments
\* is not touched
ClearJournal(u, clear_type) ==
    /\ clear_type \in {"none", "journal"}
    /\ chat_logs' = {e \in chat_logs : e.user_id # u}
    /\ future_messages' = IF clear_type = "none"
                          THEN {f \in future_messages : f.user_id # u}
                          ELSE future_messages
    /\ result' = "ok"
    /\ UNCHANGED <<now, message_sentiments, user_profiles, user_achievements,
                   user_feedback, returned, sentiment_pipeline,
                   memory_capsules, capsule_entries, managers, theme_response>>

\* !clear journal <entry_number>: session.delete of one entry; the unit of
\* work sets the chat_log_id of the entry's loaded sentiment to NULL
ClearJournalEntry(u, entry_number) ==
    LET entries == EntriesNewestFirst(u)
    IN IF entries = <<>> \/ entry_number > Len(entries) \/ entry_number < 1
       THEN /\ result' = "not_found"
            /\ UNCHANGED <<now, chat_logs, message_sentiments, user_profiles,
                           user_achievements, future_messages,
                           user_feedback, returned, sentiment_pipeline,
                   memory_capsules, capsule_entries, managers, theme_response>>
       ELSE LET entry_to_delete == entries[entry_number]
            IN /\ chat_logs' = chat_logs \ {entry_to_delete}
               /\ message_sentiments' =
                     IF HasSentiment(entry_to_delete)
                     THEN (message_sentiments \ {Sentiment(entry_to_delete)})
                          \cup {[Sentiment(entry_to_delete)
                                    EXCEPT !.chat_log_id = NullId]}
                     ELSE message_sentiments
               /\ result' = "ok"
               /\ UNCHANGED <<now, user_profiles, user_achievements,
                      future_messages, user_feedback, returned, sentiment_pipeline,
                   memory_capsules, capsule_entries, managers, theme_response>>

----------------------------------------------------------------------------
(* Future messages and feedback: journal_analyzer.create_future_message,   *)
(* journal_analyzer.store_feedback and the future-message branches of      *)
(* bot.clear                                                               *)

MaxRating == 5

\* MessageSentiment(joy=..., ..., compound_score=...): no chat_log_id is
\* passed, the column stays NULL
StandaloneSentiment(id, emotions) ==
    create_sentiment_record(id, NullId, emotions)

\* create_future_message(user_id, username, message): the sentiment is
\* flushed, the contextualisation is requested, the FutureMessage is added and
\* both are committed; any exception rolls back and is raised again.
\* classifier_fails: analyze raises; llm_fails: the chat completion raises
CreateFutureMessage(u, t, classifier_fails, llm_fails) ==
    LET raised == classifier_fails \/ analyze_raises(Classify(t)) \/ llm_fails
        sentiment == StandaloneSentiment(NextId(message_sentiments), Classify(t))
    IN /\ raised \/ Cardinality(message_sentiments) < MaxLogs
       /\ message_sentiments' = IF raised THEN message_sentiments
                                ELSE message_sentiments \cup {sentiment}
       /\ future_messages' =
             IF raised THEN future_messages
             ELSE future_messages \cup
                  {[id |-> NextId(future_messages), user_id |-> u,
                    created_at |-> now, sentiment_id |-> sentiment.id]}
       /\ result' = IF raised THEN "raised" ELSE "ok"
       /\ UNCHANGED <<now, chat_logs, user_profiles, user_achievements,
                      user_feedback, returned, sentiment_pipeline,
                   memory_capsules, capsule_entries, managers, theme_response>>

\* store_feedback(user_id, username, feedback_text, rating): as above, but an
\* exception is answered with {"success": False}
StoreFeedback(u, t, rating, classifier_fails, llm_fails) ==
    LET raised == classifier_fails \/ analyze_raises(Classify(t)) \/ llm_fails
        sentiment == StandaloneSentiment(NextId(message_sentiments), Classify(t))
    IN /\ raised \/ Cardinality(message_sentiments) < MaxLogs
       /\ message_sentiments' = IF raised THEN message_sentiments
                                ELSE message_sentiments \cup {sentiment}
       /\ user_feedback' =
             IF raised THEN user_feedback
             ELSE user_feedback \cup
                  {[id |-> NextId(user_feedback), user_id |-> u,
                    rating |-> rating, created_at |-> now,
                    sentiment_id |-> sentiment.id]}
       /\ result' = IF raised THEN "not_stored" ELSE "ok"
       /\ UNCHANGED <<now, chat_logs, user_profiles, user_achievements,
                      future_messages, returned, sentiment_pipeline,
                   memory_capsules, capsule_entries, managers, theme_response>>

\* the user's future messages, newest first
FutureMessagesNewestFirst(u) ==
    LET asc == RowsById({f \in future_messages : f.user_id = u})
    IN [i \in 1..Len(asc) |-> asc[Len(asc) + 1 - i]]

\* !clear futureMessages: a bulk DELETE of the user's future_messages rows
ClearFutureMessages(u) ==
    /\ future_messages' = {f \in future_messages : f.user_id # u}
    /\ result' = "ok"
    /\ UNCHANGED <<now, chat_logs, message_sentiments, user_profiles,
                   user_achievements, user_feedback, returned, sentiment_pipeline,
                   memory_capsules, capsule_entries, managers, theme_response>>

\* !clear futureMessage <entry_number>: session.delete of one future message;
\* its sentiment row stays
ClearFutureMessage(u, entry_number) ==
    LET messages == FutureMessagesNewestFirst(u)
    IN IF messages = <<>> \/ entry_number > Len(messages) \/ entry_number < 1
       THEN /\ result' = "not_found"
            /\ UNCHANGED <<now, chat_logs, message_sentiments, user_profiles,
                           user_achievements, future_messages,
                           user_feedback, returned, sentiment_pipeline,
                   memory_capsules, capsule_entries, managers, theme_response>>
       ELSE /\ future_messages' = future_messages \ {messages[entry_number]}
            /\ result' = "ok"
            /\ UNCHANGED <<now, chat_logs, message_sentiments, user_profiles,
                           user_achievements, user_feedback, returned, sentiment_pipeline,
                   memory_capsules, capsule_entries, managers, theme_response>>

----------------------------------------------------------------------------
(* gamification.py: the operations *)

\* get_or_create_profile(user_id, username)
GetOrCreateProfile(u) ==
    /\ user_profiles' = IF HasProfile(u) THEN user_profiles
                        ELSE user_profiles \cup {NewUserProfile(u, AuthorName(u))}
    /\ result' = "ok"
    /\ UNCHANGED <<now, chat_logs, message_sentiments, user_achievements,
                   future_messages, user_feedback, returned, sentiment_pipeline,
                   memory_capsules, capsule_entries, managers, theme_response>>

\* check_achievements(profile) for the stored profile of u
CheckAchievements(u) ==
    /\ HasProfile(u)
    /\ user_achievements' =
          CheckLoop(1, ProfileOf(u), ProfileAchievements(u),
                    user_achievements, now)
    /\ result' = "ok"
    /\ UNCHANGED <<now, chat_logs, message_sentiments, user_profiles,
                   future_messages, user_feedback, returned, sentiment_pipeline,
                   memory_capsules, capsule_entries, managers, theme_response>>

\* update_profile_stats(user_id, username): the profile is created when
\* missing, recomputed and committed, then check_achievements runs on it
UpdateProfileStats(u) ==
    LET before == IF HasProfile(u) THEN ProfileOf(u)
                  ELSE NewUserProfile(u, AuthorName(u))
        profile == UpdatedProfile(before, now)
    IN /\ user_profiles' = {p \in user_profiles : p.user_id # u} \cup {profile}
       /\ user_achievements' =
              CheckLoop(1, profile, ProfileAchievements(u),
                        user_achievements, now)
       /\ result' = "ok"
       /\ UNCHANGED <<now, chat_logs, message_sentiments,
                      future_messages, user_feedback, returned, sentiment_pipeline,
                   memory_capsules, capsule_entries, managers, theme_response>>

\* update_profile_stats(user_id, username) with an exception part-way.
\* stage "stats": raised between get_or_create_profile and the commit of
\* line 183; the except clause rolls back and re-raises, the profile row
\* get_or_create_profile committed stays.  stage "pass": raised inside
\* check_achievements, whose own except clause rolls the pass back and
\* returns []; the statistics are committed already and the caller sees no
\* exception
FailStages == {"stats", "pass"}

UpdateProfileStatsFails(u, stage) ==
    LET before == IF HasProfile(u) THEN ProfileOf(u)
                  ELSE NewUserProfile(u, AuthorName(u))
        profile == IF stage = "stats" THEN before
                   ELSE UpdatedProfile(before, now)
    IN /\ user_profiles' = {p \in user_profiles : p.user_id # u} \cup {profile}
       /\ result' = IF stage = "stats" THEN "raised" ELSE "ok"
       /\ UNCHANGED <<now, chat_logs, message_sentiments, user_achievements,
                      future_messages, user_feedback, returned,
                      sentiment_pipeline, memory_capsules, capsule_entries,
                      managers, theme_response>>

(* update_profile_stats on separate sessions.  Each GamificationManager    *)
(* has a session of its own on the same database; a run is a sequence of   *)
(* database round trips, and the runs of two managers interleave between   *)
(* them.  A commit is one step: SQLite serialises the writers.             *)

MaxRuns == 1     \* update_profile_stats runs per manager

ProfileFields == {"total_entries", "total_words", "avg_sentiment",
                  "streak_days", "longest_streak", "last_entry_date",
                  "reflection_score"}

\* line 107: the query of get_or_create_profile
MgrGetProfile(m, u) ==
    /\ managers[m].pc = "idle"
    /\ managers[m].runs < MaxRuns
    /\ managers' = [managers EXCEPT ![m] =
          [@ EXCEPT !.user_id = u,
                    !.pc = IF HasProfile(u) THEN "recompute" ELSE "create",
                    !.profile = IF HasProfile(u) THEN ProfileOf(u)
                                ELSE NewUserProfile(u, AuthorName(u))]]
    /\ UNCHANGED <<now, chat_logs, message_sentiments, user_profiles,
                   user_achievements, future_messages, user_feedback, result,
                   returned, sentiment_pipeline, memory_capsules,
                   capsule_entries, theme_response>>

\* lines 109-121: the INSERT of the new profile commits, or fails on the
\* unique user_id (models.py line 82) and the run ends with the exception
MgrCreateProfile(m) ==
    /\ managers[m].pc = "create"
    /\ IF HasProfile(managers[m].user_id)
       THEN /\ managers' = [managers EXCEPT ![m] =
                   [IdleManager EXCEPT !.runs = managers[m].runs + 1]]
            /\ result' = "raised"
            /\ UNCHANGED user_profiles
       ELSE /\ managers' = [managers EXCEPT ![m].pc = "recompute"]
            /\ user_profiles' = user_profiles \cup {managers[m].profile}
            /\ UNCHANGED result
    /\ UNCHANGED <<now, chat_logs, message_sentiments, user_achievements,
                   future_messages, user_feedback, returned,
                   sentiment_pipeline, memory_capsules, capsule_entries, theme_response>>

\* lines 129-183: the statistics are computed on the session's profile
\* object and committed; the UPDATE sets the columns whose value changed on
\* the object
MgrRecompute(m) ==
    LET u == managers[m].user_id
        mine == managers[m].profile
        computed == UpdatedProfile(mine, now)
        stored == ProfileOf(u)
        written == [f \in DOMAIN stored |->
                      IF f \in ProfileFields /\ computed[f] # mine[f]
                      THEN computed[f] ELSE stored[f]]
    IN /\ managers[m].pc = "recompute"
       /\ user_profiles' = (user_profiles \ {stored}) \cup {written}
       /\ managers' = [managers EXCEPT ![m].pc = "load"]
       /\ UNCHANGED <<now, chat_logs, message_sentiments, user_achievements,
                      future_messages, user_feedback, result, returned,
                      sentiment_pipeline, memory_capsules, capsule_entries, theme_response>>

\* lines 197-201: after the commit the profile object is expired; the
\* pass reloads it and loads profile.achievements once
MgrLoadAchievements(m) ==
    LET u == managers[m].user_id
    IN /\ managers[m].pc = "load"
       /\ managers' = [managers EXCEPT ![m] =
             [@ EXCEPT !.pc = "pass",
                       !.profile = ProfileOf(u),
                       !.loaded = ProfileAchievements(u)]]
       /\ UNCHANGED <<now, chat_logs, message_sentiments, user_profiles,
                      user_achievements, future_messages, user_feedback,
                      result, returned, sentiment_pipeline, memory_capsules,
                      capsule_entries, theme_response>>

\* lines 199-305: the loop over the achievements and its commit
MgrPass(m) ==
    /\ managers[m].pc = "pass"
    /\ user_achievements' =
          CheckLoop(1, managers[m].profile, managers[m].loaded,
                    user_achievements, now)
    /\ managers' = [managers EXCEPT ![m] =
          [IdleManager EXCEPT !.runs = managers[m].runs + 1]]
    /\ result' = "ok"
    /\ UNCHANGED <<now, chat_logs, message_sentiments, user_profiles,
                   future_messages, user_feedback, returned,
                   sentiment_pipeline, memory_capsules, capsule_entries, theme_response>>

\* the calendar day changes
AdvanceDay ==
    /\ now < MaxDay
    /\ now' = now + 1
    /\ result' = "ok"
    /\ UNCHANGED <<chat_logs, message_sentiments, user_profiles,
                   user_achievements, future_messages, user_feedback,
                   returned, sentiment_pipeline,
                   memory_capsules, capsule_entries, managers, theme_response>>

----------------------------------------------------------------------------

Init ==
    /\ now = 0
    /\ chat_logs = {}
    /\ message_sentiments = {}
    /\ user_profiles = {}
    /\ user_achievements = {}
    /\ future_messages = {}
    /\ user_feedback = {}
    /\ result = "ok"
    /\ returned = NoValue
    /\ sentiment_pipeline = <<>>
    /\ memory_capsules = {}
    /\ capsule_entries = {}
    /\ managers = IdleManagers
    /\ theme_response = NoValue

\* The journal and the gamification operations interleaved.  A submission
\* that fails and a !clear of an entry that does not exist change no table,
\* and on_message and !clear store what log_entry and !clear journal store:
\* JournalNext runs those; here every submission is a log_entry that succeeds.
Next ==
    \/ \E u \in Users, t \in Texts : LogEntry(u, t, FALSE)
    \/ \E u \in Users : ClearJournal(u, "journal")
    \/ \E u \in Users : \E n \in 1..Len(EntriesOf(u)) : ClearJournalEntry(u, n)
    \/ \E u \in Users : CheckAchievements(u)
    \/ \E u \in Users : UpdateProfileStats(u)
    \/ AdvanceDay

Spec == Init /\ [][Next]_vars

----------------------------------------------------------------------------
(* The journal alone: submissions, future messages and feedback with every *)
(* failure, and !clear                                                     *)

JournalNext ==
    \/ \E u \in Users, t \in Texts, f \in BOOLEAN : LogEntry(u, t, f)
    \/ \E u \in Users, t \in Texts, a \in BOOLEAN, f \in BOOLEAN :
          ~(a /\ f) /\ OnMessage(u, t, a, f)
    \/ \E u \in Users, c \in {"none", "journal"} : ClearJournal(u, c)
    \/ \E u \in Users, n \in 1..(MaxLogs + 1) : ClearJournalEntry(u, n)
    \/ \E u \in Users, t \in Texts, f \in BOOLEAN, l \in BOOLEAN :
          ~(f /\ l) /\ CreateFutureMessage(u, t, f, l)
    \/ \E u \in Users, t \in Texts, r \in {1, MaxRating},
          f \in BOOLEAN, l \in BOOLEAN :
          ~(f /\ l) /\ StoreFeedback(u, t, r, f, l)
    \/ \E u \in Users : ClearFutureMessages(u)
    \/ \E u \in Users, n \in 1..(MaxLogs + 1) : ClearFutureMessage(u, n)
    \/ AdvanceDay

SpecJournal == Init /\ [][JournalNext]_vars

----------------------------------------------------------------------------
(* The statistics and the achievement pass over any journal history:       *)
(* user u1 has logged up to MaxHist entries on days 0..MaxHistDay (the     *)
(* store after that many log_entry calls), nobody has a profile yet, and   *)
(* only the gamification operations run.                                   *)

MaxHist == 4
MaxHistDay == 3
MaxIdle == 2     \* days between the last entry and now

NonDecreasing(dates) ==
    \A i \in 1..(Len(dates) - 1) : dates[i] <= dates[i + 1]

Histories ==
    UNION {{d \in [1..n -> 0..MaxHistDay] : NonDecreasing(d)} : n \in 0..MaxHist}

\* entry i of a history: logged by log_entry on day dates[i], texts alternate
HistoryText(i, odd, even) == IF i % 2 = 1 THEN odd ELSE even

HistoryLogs(dates, odd, even) ==
    {[id |-> i, user_id |-> "u1", username |-> "u1",
      text |-> HistoryText(i, odd, even),
      words |-> WordCount(HistoryText(i, odd, even)), date |-> dates[i]] :
        i \in 1..Len(dates)}

HistorySentiments(dates, odd, even) ==
    {create_sentiment_record(i, i, Classify(HistoryText(i, odd, even))) :
        i \in 1..Len(dates)}

InitStats ==
    /\ \E dates \in Histories, odd \in Texts, even \in Texts :
          /\ chat_logs = HistoryLogs(dates, odd, even)
          /\ message_sentiments = HistorySentiments(dates, odd, even)
          /\ \E idle \in 0..MaxIdle :
                now = (IF dates = <<>> THEN 0 ELSE dates[Len(dates)]) + idle
    /\ user_profiles = {}
    /\ user_achievements = {}
    /\ future_messages = {}
    /\ user_feedback = {}
    /\ result = "ok"
    /\ returned = NoValue
    /\ sentiment_pipeline = <<>>
    /\ memory_capsules = {}
    /\ capsule_entries = {}
    /\ managers = IdleManagers
    /\ theme_response = NoValue

NextStats ==
    \/ \E u \in Users : GetOrCreateProfile(u)
    \/ \E u \in Users : CheckAchievements(u)
    \/ \E u \in Users : UpdateProfileStats(u)

SpecStats == InitStats /\ [][NextStats]_vars

----------------------------------------------------------------------------
(* The classifier output on its own: the pipeline has returned any list of *)
(* up to MaxLabels [label, score] pairs for the text in hand, and the      *)
(* analyzer runs on it.                                                    *)

MaxLabels == 2

\* fine-grained labels: two of one channel, one unmapped, both polarities
Labels == {"joy", "love", "admiration", "grief", "fear", "surprise", "neutral"}
Scores == {0, ScoreScale \div 2, ScoreScale}

ClassifierOutputs ==
    UNION {[1..n -> [label : Labels, score : Scores]] : n \in 0..MaxLabels}

\* _aggregate_emotions(emotions) on the pipeline's output
AggregateEmotions ==
    /\ returned' = [op |-> "_aggregate_emotions", raised |-> FALSE,
                    value |-> _aggregate_emotions(sentiment_pipeline)]
    /\ result' = "ok"
    /\ UNCHANGED <<now, chat_logs, message_sentiments, user_profiles,
                   user_achievements, future_messages, user_feedback,
                   sentiment_pipeline,
                   memory_capsules, capsule_entries, managers, theme_response>>

\* analyze(text) where the pipeline returns sentiment_pipeline
Analyze ==
    /\ returned' = IF analyze_raises(sentiment_pipeline)
                   THEN [op |-> "analyze", raised |-> TRUE, value |-> NoValue]
                   ELSE [op |-> "analyze", raised |-> FALSE,
                         value |-> analyze(sentiment_pipeline)]
    /\ result' = IF analyze_raises(sentiment_pipeline) THEN "raised" ELSE "ok"
    /\ UNCHANGED <<now, chat_logs, message_sentiments, user_profiles,
                   user_achievements, future_messages, user_feedback,
                   sentiment_pipeline,
                   memory_capsules, capsule_entries, managers, theme_response>>

\* log_entry(user_id, entry_text) where the pipeline returns
\* sentiment_pipeline for the entry's text
LogEntryClassified(u, t) ==
    LET chat_log == NewChatLog(NextId(chat_logs), u, u, t)
        raised == analyze_raises(sentiment_pipeline)
    IN /\ chat_logs = {}
       /\ chat_logs' = IF raised THEN chat_logs ELSE chat_logs \cup {chat_log}
       /\ message_sentiments' =
             IF raised THEN message_sentiments
             ELSE message_sentiments \cup
                  {create_sentiment_record(NextId(message_sentiments),
                                           chat_log.id, sentiment_pipeline)}
       /\ result' = IF raised THEN "raised" ELSE "ok"
       /\ UNCHANGED <<now, user_profiles, user_achievements, future_messages,
                      user_feedback, returned, sentiment_pipeline,
                   memory_capsules, capsule_entries, managers, theme_response>>

InitAnalyze ==
    /\ now = 0
    /\ chat_logs = {}
    /\ message_sentiments = {}
    /\ user_profiles = {}
    /\ user_achievements = {}
    /\ future_messages = {}
    /\ user_feedback = {}
    /\ result = "ok"
    /\ returned = NoValue
    /\ sentiment_pipeline \in ClassifierOutputs
    /\ memory_capsules = {}
    /\ capsule_entries = {}
    /\ managers = IdleManagers
    /\ theme_response = NoValue

NextAnalyze ==
    \/ AggregateEmotions
    \/ Analyze
    \/ \E u \in Users, t \in Texts : LogEntryClassified(u, t)

SpecAnalyze == InitAnalyze /\ [][NextAnalyze]_vars

----------------------------------------------------------------------------
(* journal_analyzer.py, bot.py, dashboard.py: the read-only analyses *)

\* the values of the days argument that are tried
Days == {1, 30}

\* ChatLog.timestamp >= now - days, ordered by timestamp ascending; the
\* clock is read in whole days
WindowEntries(u, days) ==
    SelectSeq(EntriesOf(u), LAMBDA e : e.date >= now - days)

\* a variant of get_emotional_trends: every entry of the user, no window
get_emotional_trends_AllEntries(u, days) ==
    LET withS == SelectSeq(EntriesOf(u), HasSentiment)
        n == Len(withS)
    IN [dates |-> [i \in 1..n |-> withS[i].date],
        compound_trend |-> [i \in 1..n |-> Sentiment(withS[i]).compound_score],
        emotion_trends |->
            [c \in ChannelSet |-> [i \in 1..n |-> Sentiment(withS[i]).emotions[c]]],
        dominant_emotions |->
            [i \in 1..n |-> DominantEmotion(Sentiment(withS[i]))]]

\* the value get_emotional_trends returns
get_emotional_trends(u, days) ==
    LET withS == SelectSeq(WindowEntries(u, days), HasSentiment)
        n == Len(withS)
    IN [dates |-> [i \in 1..n |-> withS[i].date],
        compound_trend |-> [i \in 1..n |-> Sentiment(withS[i]).compound_score],
        emotion_trends |->
            [c \in ChannelSet |-> [i \in 1..n |-> Sentiment(withS[i]).emotions[c]]],
        dominant_emotions |->
            [i \in 1..n |-> DominantEmotion(Sentiment(withS[i]))]]

GetEmotionalTrends(u, days) ==
    /\ returned' = [op |-> "get_emotional_trends", user_id |-> u,
                    days |-> days, value |-> get_emotional_trends(u, days)]
    /\ result' = "ok"
    /\ UNCHANGED <<now, chat_logs, message_sentiments, user_profiles,
                   user_achievements, future_messages, user_feedback,
                   sentiment_pipeline,
                   memory_capsules, capsule_entries, managers, theme_response>>

\* the value get_user_history returns: the newest `limit` entries of the
\* user, those with a sentiment, newest first
get_user_history(u, limit) ==
    LET desc == EntriesNewestFirst(u)
        limited == SubSeq(desc, 1, Min2(limit, Len(desc)))
        withS == SelectSeq(limited, HasSentiment)
    IN [i \in 1..Len(withS) |->
          [timestamp |-> withS[i].date,
           text |-> withS[i].text,
           compound_score |-> Sentiment(withS[i]).compound_score,
           dominant_emotion |-> DominantEmotion(Sentiment(withS[i]))]]

\* the slices [:3] and [-3:] of a list
First3(s) == SubSeq(s, 1, Min2(3, Len(s)))
Last3(s) == SubSeq(s, Max2(1, Len(s) - 2), Len(s))

\* bot.py lines 304-306, on a non-empty compound_trend: sums of three
\* divided by 3, or the single first and last value
TrendDirection(compound_trend) ==
    LET n == Len(compound_trend)
        avg_start == IF n >= 3 THEN Rat(SumSeq(First3(compound_trend)), 3)
                     ELSE Rat(compound_trend[1], 1)
        avg_end == IF n >= 3 THEN Rat(SumSeq(Last3(compound_trend)), 3)
                   ELSE Rat(compound_trend[n], 1)
    IN IF RLt(avg_start, avg_end) THEN "improving"
       ELSE IF RLt(avg_end, avg_start) THEN "declining"
       ELSE "stable"

\* !history <days>: the reply's parts. "none" stands for a reply without
\* the "Overall Trend" line
ViewHistory(u, days) ==
    LET history == get_user_history(u, days)
        trends == get_emotional_trends(u, days)
    IN /\ returned' =
             IF history = <<>>
             THEN [op |-> "view_history", user_id |-> u, days |-> days,
                   found |-> FALSE]
             ELSE [op |-> "view_history", user_id |-> u, days |-> days,
                   found |-> TRUE,
                   compound_trend |-> trends.compound_trend,
                   dominant_emotions |-> trends.dominant_emotions,
                   trend_direction |->
                       IF trends.dates # <<>>
                       THEN TrendDirection(trends.compound_trend)
                       ELSE "none",
                   history |-> history]
       /\ result' = "ok"
       /\ UNCHANGED <<now, chat_logs, message_sentiments, user_profiles,
                      user_achievements, future_messages, user_feedback,
                      sentiment_pipeline,
                   memory_capsules, capsule_entries, managers, theme_response>>

RECURSIVE Flatten(_)
Flatten(ss) == IF ss = <<>> THEN <<>> ELSE Head(ss) \o Flatten(Tail(ss))

\* dashboard._get_user_data: chat_logs joined with message_sentiments, one
\* row per pair, in timestamp order
_get_user_data(u, days) ==
    LET es == WindowEntries(u, days)
    IN Flatten([i \in 1..Len(es) |->
                  LET ss == RowsById(SentimentsOf(es[i]))
                  IN [j \in 1..Len(ss) |->
                        [timestamp |-> es[i].date,
                         compound_score |-> ss[j].compound_score,
                         emotions |-> ss[j].emotions]]])

\* df['compound_score'].iloc[-3:].mean() > df['compound_score'].iloc[:3].mean()
MoodSentimentTrend(scores) ==
    IF RLt(Rat(SumSeq(First3(scores)), Len(First3(scores))),
           Rat(SumSeq(Last3(scores)), Len(Last3(scores))))
    THEN "improving" ELSE "declining"

\* df[emotions].mean().idxmax(): the first channel of the largest mean
MoodDominantEmotion(df) ==
    LET total(c) == SumSeq([i \in 1..Len(df) |-> df[i].emotions[c]])
    IN Channels[CHOOSE i \in 1..Len(Channels) :
          /\ \A j \in 1..Len(Channels) : total(Channels[j]) <= total(Channels[i])
          /\ \A j \in 1..(i - 1) : total(Channels[j]) < total(Channels[i])]

\* Dashboard.generate_mood_trends; writing the chart image may fail
GenerateMoodTrends(u, days, chart_fails) ==
    LET df == _get_user_data(u, days)
        scores == [i \in 1..Len(df) |-> df[i].compound_score]
    IN /\ returned' =
             IF df = <<>>
             THEN [op |-> "generate_mood_trends", user_id |-> u,
                   days |-> days, success |-> FALSE, message |-> "no_entries"]
             ELSE IF chart_fails
             THEN [op |-> "generate_mood_trends", user_id |-> u,
                   days |-> days, success |-> FALSE, message |-> "error"]
             ELSE [op |-> "generate_mood_trends", user_id |-> u,
                   days |-> days, success |-> TRUE,
                   compound_scores |-> scores,
                   total_entries |-> Len(df),
                   avg_sentiment |-> Rat(SumSeq(scores), Len(df)),
                   dominant_emotion |-> MoodDominantEmotion(df),
                   sentiment_trend |-> MoodSentimentTrend(scores)]
       /\ result' = "ok"
       /\ UNCHANGED <<now, chat_logs, message_sentiments, user_profiles,
                      user_achievements, future_messages, user_feedback,
                      sentiment_pipeline,
                   memory_capsules, capsule_entries, managers, theme_response>>

\* 0.5, in the unit of compound scores
ShiftThreshold == Rat(CompoundDen, 2)

\* a variant of the shift test: a threshold of 0.1
ShiftExceeds_Tenth(a, b) == RLt(Rat(CompoundDen, 10), RAbs(RSub(a, b)))

\* abs(a - b) > 0.5 for two (mean) compound scores
ShiftExceeds(a, b) == RLt(ShiftThreshold, RAbs(RSub(a, b)))

\* generate_timeline: all entries of the user, oldest first. An exception
\* (the LLM call, sentiment_data[-1] on an empty list) is caught and
\* answered with success False
GenerateTimeline(u, llm_fails) ==
    LET entries == EntriesOf(u)
        idx == SelectSeq([i \in 1..Len(entries) |-> i],
                         LAMBDA i : HasSentiment(entries[i]))
        sentiment_data ==
            [k \in 1..Len(idx) |->
               [score |-> Sentiment(entries[idx[k]]).compound_score,
                emotion |-> DominantEmotion(Sentiment(entries[idx[k]]))]]
        shifted == SelectSeq([k \in 1..Len(idx) |-> k],
                             LAMBDA k : /\ k > 1
                                        /\ ShiftExceeds(
                                             Rat(sentiment_data[k].score, 1),
                                             Rat(sentiment_data[k - 1].score, 1)))
        milestones == [m \in 1..Len(shifted) |->
                         [date |-> entries[idx[shifted[m]]].date,
                          entry_index |-> idx[shifted[m]] - 1]]
    IN /\ returned' =
             IF entries = <<>>
             THEN [op |-> "generate_timeline", user_id |-> u,
                   success |-> FALSE, message |-> "no_entries"]
             ELSE IF sentiment_data = <<>> \/ llm_fails
             THEN [op |-> "generate_timeline", user_id |-> u,
                   success |-> FALSE, message |-> "error"]
             ELSE [op |-> "generate_timeline", user_id |-> u,
                   success |-> TRUE,
                   milestones |-> milestones,
                   overall_direction |->
                       IF sentiment_data[Len(sentiment_data)].score
                              > sentiment_data[1].score
                       THEN "improving" ELSE "declining",
                   dominant_emotions |->
                       {sentiment_data[k].emotion :
                           k \in 1..Min2(5, Len(sentiment_data))},
                   entry_count |-> Len(entries)]
       /\ result' = "ok"
       /\ UNCHANGED <<now, chat_logs, message_sentiments, user_profiles,
                      user_achievements, future_messages, user_feedback,
                      sentiment_pipeline,
                   memory_capsules, capsule_entries, managers, theme_response>>

\* 1 - (max(scores) - min(scores)) / 2, None for an empty compound_trend
EmotionalStability(scores) ==
    IF scores # <<>>
    THEN Rat(2 * CompoundDen
               - (MaxOfSet(SeqRange(scores)) - MinOfSet(SeqRange(scores))),
             2 * CompoundDen)
    ELSE NoValue

\* generate_growth_forecast: an exception of the LLM call is caught and
\* answered with success False
GenerateGrowthForecast(u, days, llm_fails) ==
    LET entries == WindowEntries(u, days)
        emotional_trends == get_emotional_trends(u, days)
    IN /\ returned' =
             IF entries = <<>>
             THEN [op |-> "generate_growth_forecast", user_id |-> u,
                   days |-> days, success |-> FALSE,
                   message |-> "insufficient"]
             ELSE IF llm_fails
             THEN [op |-> "generate_growth_forecast", user_id |-> u,
                   days |-> days, success |-> FALSE, message |-> "error"]
             ELSE [op |-> "generate_growth_forecast", user_id |-> u,
                   days |-> days, success |-> TRUE,
                   entry_count |-> Len(entries),
                   emotional_stability |->
                       EmotionalStability(emotional_trends.compound_trend)]
       /\ result' = "ok"
       /\ UNCHANGED <<now, chat_logs, message_sentiments, user_profiles,
                      user_achievements, future_messages, user_feedback,
                      sentiment_pipeline,
                   memory_capsules, capsule_entries, managers, theme_response>>

(* The analyses over any journal history of user u1 (as the statistics    *)
(* above, with the texts of TrendTexts); only the analyses run.            *)
InitTrends ==
    /\ \E dates \in Histories, odd \in TrendTexts, even \in TrendTexts :
          /\ chat_logs = HistoryLogs(dates, odd, even)
          /\ message_sentiments = HistorySentiments(dates, odd, even)
          /\ \E idle \in 0..MaxIdle :
                now = (IF dates = <<>> THEN 0 ELSE dates[Len(dates)]) + idle
    /\ user_profiles = {}
    /\ user_achievements = {}
    /\ future_messages = {}
    /\ user_feedback = {}
    /\ result = "ok"
    /\ returned = NoValue
    /\ sentiment_pipeline = <<>>
    /\ memory_capsules = {}
    /\ capsule_entries = {}
    /\ managers = IdleManagers
    /\ theme_response = NoValue

NextTrends ==
    \/ \E u \in Users, days \in Days : GetEmotionalTrends(u, days)
    \/ \E u \in Users, days \in Days : ViewHistory(u, days)
    \/ \E u \in Users, days \in Days, chart_fails \in BOOLEAN :
          GenerateMoodTrends(u, days, chart_fails)
    \/ \E u \in Users, llm_fails \in BOOLEAN : GenerateTimeline(u, llm_fails)
    \/ \E u \in Users, days \in Days, llm_fails \in BOOLEAN :
          GenerateGrowthForecast(u, days, llm_fails)

SpecTrends == InitTrends /\ [][NextTrends]_vars

----------------------------------------------------------------------------
(* journal_analyzer.py: the life story *)

window_size == 5

\* the compound scores of the entries of a window that have a sentiment
WindowSentiments(window) ==
    LET withS == SelectSeq(window, HasSentiment)
    IN [k \in 1..Len(withS) |-> Sentiment(withS[k]).compound_score]

\* lines 1121-1142: the loop over the windows from index i on (1-based),
\* prev_sentiment is NoValue until a window had a sentiment
RECURSIVE SentimentShiftsFrom(_, _, _)
SentimentShiftsFrom(entries, i, prev_sentiment) ==
    IF i > Len(entries) - window_size + 1 THEN <<>>
    ELSE LET window == SubSeq(entries, i, i + window_size - 1)
             window_sentiments == WindowSentiments(window)
             avg_sentiment == Rat(SumSeq(window_sentiments),
                                  Len(window_sentiments))
         IN IF window_sentiments = <<>>
            THEN SentimentShiftsFrom(entries, i + 1, prev_sentiment)
            ELSE (IF /\ prev_sentiment # NoValue
                     /\ ShiftExceeds(avg_sentiment, prev_sentiment)
                  THEN <<[date |-> window[window_size].date,
                          sentiment |-> avg_sentiment,
                          shift_magnitude |->
                              RSub(avg_sentiment, prev_sentiment)]>>
                  ELSE <<>>)
                 \o SentimentShiftsFrom(entries, i + 1, avg_sentiment)

SentimentShifts(entries) == SentimentShiftsFrom(entries, 1, NoValue)

\* lines 1035-1052: strong emotional intensity, or an event keyword
IsSignificant(entry) ==
    \/ /\ HasSentiment(entry)
       /\ ShiftExceeds(Rat(Sentiment(entry).compound_score, 1), Rat(0, 1))
    \/ HasEventKeyword(entry.text)

\* lines 1057-1062: the event made of a significant entry
EntryEvent(entry) ==
    [date |-> entry.date,
     content |-> entry.text,
     sentiment |-> IF HasSentiment(entry)
                   THEN Sentiment(entry).compound_score ELSE 0,
     dominant_emotion |-> IF HasSentiment(entry)
                          THEN DominantEmotion(Sentiment(entry))
                          ELSE NoValue]

\* lines 1065-1068: a shift is appended unless an event of the list (an
\* entry's, or a shift appended before) carries its date
RECURSIVE KeptShifts(_, _)
KeptShifts(shifts, dates) ==
    IF shifts = <<>> THEN <<>>
    ELSE IF Head(shifts).date \in dates
         THEN KeptShifts(Tail(shifts), dates)
         ELSE <<Head(shifts)>>
              \o KeptShifts(Tail(shifts), dates \cup {Head(shifts).date})

\* the lists a stable sort by date can give for a list that holds the
\* events of `items` in any order: list(set(...)) at line 1052 fixes no
\* order among the entries of a month
RECURSIVE EventOrders(_)
EventOrders(items) ==
    IF items = {} THEN {<<>>}
    ELSE LET d == MinOfSet({x.event.date : x \in items})
             firsts == {x.event : x \in {y \in items : y.event.date = d}}
         IN UNION {{<<ev>> \o rest :
                       rest \in EventOrders(
                           items \ {CHOOSE x \in items : x.event = ev})} :
                     ev \in firsts}

\* the lists _detect_significant_events can return
_detect_significant_events(entries, sentiment_shifts) ==
    LET significant == {i \in 1..Len(entries) : IsSignificant(entries[i])}
        entry_items == {[id |-> i, event |-> EntryEvent(entries[i])] :
                           i \in significant}
        kept == KeptShifts(sentiment_shifts,
                           {x.event.date : x \in entry_items})
        shift_items == {[id |-> Len(entries) + k, event |-> kept[k]] :
                           k \in 1..Len(kept)}
    IN EventOrders(entry_items \cup shift_items)

\* lines 1214-1217
OverallArc(sentiment_shifts) ==
    LET n == Len(sentiment_shifts)
    IN IF n = 0 THEN "undefined"
       ELSE IF RLt(sentiment_shifts[1].sentiment, sentiment_shifts[n].sentiment)
       THEN "positive"
       ELSE IF RLt(sentiment_shifts[n].sentiment, sentiment_shifts[1].sentiment)
       THEN "negative"
       ELSE "stable"

\* generate_life_story; sentiment_shifts is the list the run computed, of
\* which the reply holds the length and the overall arc. An exception of
\* the LLM call is caught and answered with success False
GenerateLifeStory(u, llm_fails) ==
    LET entries == EntriesOf(u)
        sentiment_shifts == SentimentShifts(entries)
    IN /\ \E significant_events \in
                _detect_significant_events(entries, sentiment_shifts) :
             returned' =
                IF entries = <<>>
                THEN [op |-> "generate_life_story", user_id |-> u,
                      success |-> FALSE, message |-> "no_entries",
                      sentiment_shifts |-> <<>>, events |-> <<>>]
                ELSE IF significant_events = <<>>
                THEN [op |-> "generate_life_story", user_id |-> u,
                      success |-> FALSE, message |-> "no_events",
                      sentiment_shifts |-> sentiment_shifts,
                      events |-> <<>>]
                ELSE IF llm_fails
                THEN [op |-> "generate_life_story", user_id |-> u,
                      success |-> FALSE, message |-> "error",
                      sentiment_shifts |-> sentiment_shifts,
                      events |-> significant_events]
                ELSE [op |-> "generate_life_story", user_id |-> u,
                      success |-> TRUE, message |-> "",
                      sentiment_shifts |-> sentiment_shifts,
                      events |-> significant_events,
                      total_entries |-> Len(entries),
                      major_shifts |-> Len(sentiment_shifts),
                      overall_arc |-> OverallArc(sentiment_shifts)]
       /\ result' = "ok"
       /\ UNCHANGED <<now, chat_logs, message_sentiments, user_profiles,
                      user_achievements, future_messages, user_feedback,
                      sentiment_pipeline,
                   memory_capsules, capsule_entries, managers, theme_response>>

(* The life story over any journal history of user u1: up to MaxStory     *)
(* entries logged on days 0..MaxStoryDay, texts of StoryTexts.             *)
MaxStory == 6
MaxStoryDay == 1

StoryHistories ==
    UNION {{d \in [1..n -> 0..MaxStoryDay] : NonDecreasing(d)} :
              n \in 0..MaxStory}

InitStory ==
    /\ \E dates \in StoryHistories, odd \in StoryTexts, even \in StoryTexts :
          /\ chat_logs = HistoryLogs(dates, odd, even)
          /\ message_sentiments = HistorySentiments(dates, odd, even)
          /\ now = (IF dates = <<>> THEN 0 ELSE dates[Len(dates)])
    /\ user_profiles = {}
    /\ user_achievements = {}
    /\ future_messages = {}
    /\ user_feedback = {}
    /\ result = "ok"
    /\ returned = NoValue
    /\ sentiment_pipeline = <<>>
    /\ memory_capsules = {}
    /\ capsule_entries = {}
    /\ managers = IdleManagers
    /\ theme_response = NoValue

NextStory ==
    \E u \in Users, llm_fails \in BOOLEAN : GenerateLifeStory(u, llm_fails)

SpecStory == InitStory /\ [][NextStory]_vars

----------------------------------------------------------------------------
(* journal_analyzer.py: analyze_sentiment and the theme generator.  A list *)
(* item is a record [item, key]: a string of the response or of the       *)
(* default payload (key ""), or one of the two strings made from the key.  *)

required_keys ==
    <<"themes", "emotional_patterns", "recurring_ideas",
      "growth_indicators", "focus_areas">>
RequiredKeySet == {required_keys[i] : i \in 1..Len(required_keys)}

Item(text) == [item |-> text, key |-> ""]

\* lines 320-326: the fallback content
DefaultThemes ==
    [themes |-> <<Item("Personal Experience"), Item("Daily Activities"),
                  Item("Self-Reflection")>>,
     emotional_patterns |-> <<Item("Emotional Processing"),
                              Item("Adaptive Response")>>,
     recurring_ideas |-> <<Item("Personal Growth"), Item("Life Experiences")>>,
     growth_indicators |-> <<Item("Learning Process"), Item("Self-Awareness")>>,
     focus_areas |-> <<Item("Emotional Management"),
                       Item("Personal Development")>>]

\* the values a key of the parsed object can have: absent, not a list, or
\* a list of up to MaxItems strings
MaxItems == 3
ThemeValues ==
    {[kind |-> "missing", items |-> <<>>], [kind |-> "string", items |-> <<>>]}
    \cup {[kind |-> "list", items |-> [i \in 1..n |-> Item("x")]] :
             n \in 0..MaxItems}

\* the outcomes of the call: an exception, a text json.loads (or the '{'
\* test) rejects, or a JSON object
ThemeResponses ==
    {[kind |-> "exception", object |-> <<>>],
     [kind |-> "not_json", object |-> <<>>]}
    \cup {[kind |-> "object", object |-> o] :
             o \in [RequiredKeySet -> ThemeValues]}

\* a variant of the padding: nothing is appended
PadToTwo_NoPadding(items, key) == items

\* lines 312-313: while len(theme_analysis[key]) < 2: append
RECURSIVE PadToTwo(_, _)
PadToTwo(items, key) ==
    IF Len(items) < 2
    THEN PadToTwo(Append(items, [item |-> "Additional", key |-> key]), key)
    ELSE items

\* lines 305-313: the validation of one key of the parsed object
ValidatedKey(value, key) ==
    LET present == IF value.kind = "missing"
                   THEN [kind |-> "list", items |-> <<>>] ELSE value
        listed == IF present.kind # "list" \/ present.items = <<>>
                  THEN <<[item |-> "No identified", key |-> key]>>
                  ELSE present.items
    IN PadToTwo(listed, key)

\* lines 275-326: theme_analysis for an outcome of the call
theme_analysis(response) ==
    IF response.kind = "object"
    THEN [key \in RequiredKeySet |->
             ValidatedKey(response.object[key], key)]
    ELSE DefaultThemes

\* analyze_sentiment(entry_text): analyze runs outside the try block
AnalyzeSentiment ==
    /\ returned' =
          IF analyze_raises(sentiment_pipeline)
          THEN [op |-> "analyze_sentiment", raised |-> TRUE,
                response |-> theme_response]
          ELSE [op |-> "analyze_sentiment", raised |-> FALSE,
                response |-> theme_response,
                sentiment |-> analyze(sentiment_pipeline),
                themes |-> theme_analysis(theme_response)]
    /\ result' = IF analyze_raises(sentiment_pipeline) THEN "raised" ELSE "ok"
    /\ UNCHANGED <<now, chat_logs, message_sentiments, user_profiles,
                   user_achievements, future_messages, user_feedback,
                   sentiment_pipeline, memory_capsules, capsule_entries,
                   managers, theme_response>>

InitThemes ==
    /\ now = 0
    /\ chat_logs = {}
    /\ message_sentiments = {}
    /\ user_profiles = {}
    /\ user_achievements = {}
    /\ future_messages = {}
    /\ user_feedback = {}
    /\ result = "ok"
    /\ returned = NoValue
    /\ sentiment_pipeline \in {Classify(t) : t \in Texts} \cup {<<>>}
    /\ memory_capsules = {}
    /\ capsule_entries = {}
    /\ managers = IdleManagers
    /\ theme_response \in ThemeResponses

NextThemes == AnalyzeSentiment

SpecThemes == InitThemes /\ [][NextThemes]_vars

----------------------------------------------------------------------------
(* The gamification operations over any journal history, with the runs    *)
(* of update_profile_stats that end in an exception.                       *)

NextRollback ==
    \/ NextStats
    \/ \E u \in Users, stage \in FailStages : UpdateProfileStatsFails(u, stage)

SpecRollback == InitStats /\ [][NextRollback]_vars

----------------------------------------------------------------------------
(* Two GamificationManager sessions over a short journal history of u1.    *)

MaxConcHist == 1

InitConcurrent ==
    /\ \E dates \in {d \in Histories : Len(d) <= MaxConcHist},
          odd \in Texts :
          /\ chat_logs = HistoryLogs(dates, odd, odd)
          /\ message_sentiments = HistorySentiments(dates, odd, odd)
          /\ \E idle \in 0..MaxIdle :
                now = (IF dates = <<>> THEN 0 ELSE dates[Len(dates)]) + idle
    /\ user_profiles = {}
    /\ user_achievements = {}
    /\ future_messages = {}
    /\ user_feedback = {}
    /\ result = "ok"
    /\ returned = NoValue
    /\ sentiment_pipeline = <<>>
    /\ memory_capsules = {}
    /\ capsule_entries = {}
    /\ managers = IdleManagers
    /\ theme_response = NoValue

NextConcurrent ==
    \/ \E m \in Managers, u \in Users : MgrGetProfile(m, u)
    \/ \E m \in Managers : MgrCreateProfile(m)
    \/ \E m \in Managers : MgrRecompute(m)
    \/ \E m \in Managers : MgrLoadAchievements(m)
    \/ \E m \in Managers : MgrPass(m)

SpecConcurrent == InitConcurrent /\ [][NextConcurrent]_vars

----------------------------------------------------------------------------
(* bot.py: the !sentiment command, and the journal with its read commands  *)

RecentLimit == 10

\* get_sentiment: the most recent chat_logs rows, whoever wrote them; of
\* those with a sentiment the reply quotes the text and the scores.
\* user_id names the author of the quoted entry; the reply does not show it
GetSentiment(caller) ==
    LET asc == RowsById(chat_logs)
        desc == [i \in 1..Len(asc) |-> asc[Len(asc) + 1 - i]]
        recent_logs == SubSeq(desc, 1, Min2(RecentLimit, Len(desc)))
        withS == SelectSeq(recent_logs, HasSentiment)
    IN /\ returned' =
             IF recent_logs = <<>>
             THEN [op |-> "get_sentiment", caller |-> caller,
                   found |-> FALSE, logs |-> <<>>]
             ELSE [op |-> "get_sentiment", caller |-> caller,
                   found |-> TRUE,
                   logs |-> [i \in 1..Len(withS) |->
                      [user_id |-> withS[i].user_id,
                       message_content |-> withS[i].text,
                       dominant_emotion |-> DominantEmotion(Sentiment(withS[i])),
                       compound_score |-> Sentiment(withS[i]).compound_score,
                       confidence |-> Sentiment(withS[i]).confidence]]]
       /\ result' = "ok"
       /\ UNCHANGED <<now, chat_logs, message_sentiments, user_profiles,
                      user_achievements, future_messages, user_feedback,
                      sentiment_pipeline, memory_capsules, capsule_entries,
                      managers, theme_response>>

NextScope ==
    \/ JournalNext
    \/ \E u \in Users : GetSentiment(u)
    \/ \E u \in Users, days \in Days : ViewHistory(u, days)

SpecScope == Init /\ [][NextScope]_vars

----------------------------------------------------------------------------
(* The sentiment_trend criterion over long histories: user u1 has logged   *)
(* MinTrendHist..MaxTrendHist entries on day 0, and the gamification       *)
(* operations run on that day or after the entries have left the 30-day    *)
(* window.                                                                 *)

MinTrendHist == TrendMinEntries - 1
MaxTrendHist == 10
GrowthTexts == {"glad", "torn"}

GrowthHistories ==
    UNION {[1..n -> GrowthTexts] : n \in MinTrendHist..MaxTrendHist}

GrowthLogs(texts) ==
    {[id |-> i, user_id |-> "u1", username |-> "u1", text |-> texts[i],
      words |-> WordCount(texts[i]), date |-> 0] : i \in 1..Len(texts)}

GrowthSentiments(texts) ==
    {create_sentiment_record(i, i, Classify(texts[i])) : i \in 1..Len(texts)}

InitGrowth ==
    /\ \E texts \in GrowthHistories :
          /\ chat_logs = GrowthLogs(texts)
          /\ message_sentiments = GrowthSentiments(texts)
    /\ now \in {0, TrendWindowDays + 1}
    /\ user_profiles = {}
    /\ user_achievements = {}
    /\ future_messages = {}
    /\ user_feedback = {}
    /\ result = "ok"
    /\ returned = NoValue
    /\ sentiment_pipeline = <<>>
    /\ memory_capsules = {}
    /\ capsule_entries = {}
    /\ managers = IdleManagers
    /\ theme_response = NoValue

SpecGrowth == InitGrowth /\ [][NextStats]_vars

----------------------------------------------------------------------------
(* memory_capsule_manager.py.  models.MemoryCapsule and models.CapsuleEntry *)
(* are imported by the manager; their rows and the delete cascade are the   *)
(* ones the specification describes: a capsule is (id, user_id, name), an   *)
(* entry-link is (id, capsule_id, chat_log_id), and deleting a capsule      *)
(* deletes its entry-links and no entry.                                    *)

MaxCapsules == 2
CapsuleNames == {"trip", "work"}
CapsuleIds == 1..(MaxCapsules + 1)

NewMemoryCapsule(id, u, name) == [id |-> id, user_id |-> u, name |-> name]

NewCapsuleEntry(id, capsule_id, chat_log_id) ==
    [id |-> id, capsule_id |-> capsule_id, chat_log_id |-> chat_log_id]

\* the entry-links left when a capsule is deleted
CascadeDelete(capsule) ==
    {l \in capsule_entries : l.capsule_id # capsule.id}

\* the capsule with this id owned by u, as a set of at most one row
OwnedCapsule(u, capsule_id) ==
    {c \in memory_capsules : c.id = capsule_id /\ c.user_id = u}

\* create_capsule(user_id, name)
CreateCapsule(u, name) ==
    LET existing == {c \in memory_capsules : c.user_id = u /\ c.name = name}
    IN /\ \/ existing # {}
          \/ /\ Cardinality(memory_capsules) < MaxCapsules
             /\ NextId(memory_capsules) \in CapsuleIds
       /\ memory_capsules' =
             IF existing # {} THEN memory_capsules
             ELSE memory_capsules
                  \cup {NewMemoryCapsule(NextId(memory_capsules), u, name)}
       /\ returned' = [op |-> "create_capsule", user_id |-> u,
                       success |-> existing = {}]
       /\ result' = "ok"
       /\ UNCHANGED <<now, chat_logs, message_sentiments, user_profiles,
                      user_achievements, future_messages, user_feedback,
                      sentiment_pipeline, capsule_entries, managers,
                      theme_response>>

\* add_entry(user_id, capsule_id, chat_log_id)
AddEntry(u, capsule_id, chat_log_id) ==
    LET capsule == OwnedCapsule(u, capsule_id)
        chat_log == {e \in chat_logs : e.id = chat_log_id /\ e.user_id = u}
        existing == {l \in capsule_entries : /\ l.capsule_id = capsule_id
                                             /\ l.chat_log_id = chat_log_id}
        added == capsule # {} /\ chat_log # {} /\ existing = {}
    IN /\ capsule_entries' =
             IF added
             THEN capsule_entries
                  \cup {NewCapsuleEntry(NextId(capsule_entries),
                                        capsule_id, chat_log_id)}
             ELSE capsule_entries
       /\ returned' = [op |-> "add_entry", user_id |-> u, success |-> added]
       /\ result' = "ok"
       /\ UNCHANGED <<now, chat_logs, message_sentiments, user_profiles,
                      user_achievements, future_messages, user_feedback,
                      sentiment_pipeline, memory_capsules, managers,
                      theme_response>>

\* a variant of the deletion: the capsule is looked up by its id alone
DeleteCapsule_AnyOwner(u, capsule_id) ==
    LET capsule == {c \in memory_capsules : c.id = capsule_id}
    IN /\ memory_capsules' = memory_capsules \ capsule
       /\ capsule_entries' =
             IF capsule = {} THEN capsule_entries
             ELSE CascadeDelete(CHOOSE c \in capsule : TRUE)
       /\ returned' = [op |-> "delete_capsule", user_id |-> u,
                       success |-> capsule # {}]
       /\ result' = "ok"
       /\ UNCHANGED <<now, chat_logs, message_sentiments, user_profiles,
                      user_achievements, future_messages, user_feedback,
                      sentiment_pipeline, managers, theme_response>>

\* delete_capsule(user_id, capsule_id)
DeleteCapsule(u, capsule_id) ==
    LET capsule == OwnedCapsule(u, capsule_id)
    IN /\ memory_capsules' = memory_capsules \ capsule
       /\ capsule_entries' =
             IF capsule = {} THEN capsule_entries
             ELSE CascadeDelete(CHOOSE c \in capsule : TRUE)
       /\ returned' = [op |-> "delete_capsule", user_id |-> u,
                       success |-> capsule # {}]
       /\ result' = "ok"
       /\ UNCHANGED <<now, chat_logs, message_sentiments, user_profiles,
                      user_achievements, future_messages, user_feedback,
                      sentiment_pipeline, managers, theme_response>>

\* the journal the capsules are layered on: two entries of u1, none of u2
CapsuleLogs ==
    {[id |-> 1, user_id |-> "u1", username |-> "u1", text |-> "glad",
      words |-> WordCount("glad"), date |-> 0],
     [id |-> 2, user_id |-> "u1", username |-> "u1", text |-> "grieving",
      words |-> WordCount("grieving"), date |-> 0]}

InitCapsules ==
    /\ chat_logs = CapsuleLogs
    /\ message_sentiments =
          {create_sentiment_record(e.id, e.id, Classify(e.text)) :
              e \in CapsuleLogs}
    /\ now = 0
    /\ user_profiles = {}
    /\ user_achievements = {}
    /\ future_messages = {}
    /\ user_feedback = {}
    /\ result = "ok"
    /\ returned = NoValue
    /\ sentiment_pipeline = <<>>
    /\ memory_capsules = {}
    /\ capsule_entries = {}
    /\ managers = IdleManagers
    /\ theme_response = NoValue

NextCapsules ==
    \/ \E u \in Users, name \in CapsuleNames : CreateCapsule(u, name)
    \/ \E u \in Users, capsule_id \in CapsuleIds,
          chat_log_id \in 1..(Cardinality(CapsuleLogs) + 1) :
          AddEntry(u, capsule_id, chat_log_id)
    \/ \E u \in Users, capsule_id \in CapsuleIds : DeleteCapsule(u, capsule_id)

SpecCapsules == InitCapsules /\ [][NextCapsules]_vars

----------------------------------------------------------------------------
(* The streaks over a journal that changes between the updates: user u1    *)
(* has logged up to MaxStreakHist entries on days 0..MaxStreakDay, then    *)
(* entries are added and deleted and days pass                             *)

MaxStreakHist == 3
MaxStreakDay == 2

StreakHistories ==
    UNION {{d \in [1..n -> 0..MaxStreakDay] : NonDecreasing(d)} :
           n \in 0..MaxStreakHist}

InitStreaks ==
    /\ \E dates \in StreakHistories :
          /\ chat_logs = HistoryLogs(dates, "glad", "glad")
          /\ message_sentiments = HistorySentiments(dates, "glad", "glad")
          /\ now = IF dates = <<>> THEN 0 ELSE dates[Len(dates)]
    /\ user_profiles = {}
    /\ user_achievements = {}
    /\ future_messages = {}
    /\ user_feedback = {}
    /\ result = "ok"
    /\ returned = NoValue
    /\ sentiment_pipeline = <<>>
    /\ memory_capsules = {}
    /\ capsule_entries = {}
    /\ managers = IdleManagers
    /\ theme_response = NoValue

NextStreaks ==
    \/ \E u \in Users : UpdateProfileStats(u)
    \/ \E u \in Users, t \in Texts : LogEntry(u, t, FALSE)
    \/ \E u \in Users : ClearJournal(u, "journal")
    \/ \E u \in Users : \E n \in 1..Len(EntriesOf(u)) : ClearJournalEntry(u, n)
    \/ AdvanceDay

SpecStreaks == InitStreaks /\ [][NextStreaks]_vars

----------------------------------------------------------------------------
(* gamification.py: get_profile_data and get_leaderboard *)

\* one listed achievement: the reply shows the achievement's name,
\* description and icon with the row's earned_at or progress
Listed(ua) ==
    [achievement_id |-> ua.achievement_id, id |-> ua.id,
     earned_at |-> ua.earned_at, progress |-> ua.progress]

\* get_profile_data(user_id)
GetProfileData(u) ==
    LET earned_achievements == {ua \in user_achievements : ua.user_id = u}
        in_progress == {ua \in user_achievements :
                           ua.user_id = u /\ RLt(ua.progress, Rat(100, 1))}
    IN /\ returned' =
             IF ~HasProfile(u)
             THEN [op |-> "get_profile_data", user_id |-> u, found |-> FALSE]
             ELSE [op |-> "get_profile_data", user_id |-> u, found |-> TRUE,
                   total_entries |-> ProfileOf(u).total_entries,
                   current_streak |-> ProfileOf(u).streak_days,
                   longest_streak |-> ProfileOf(u).longest_streak,
                   earned_achievements |->
                       {Listed(ua) : ua \in earned_achievements},
                   in_progress |-> {Listed(ua) : ua \in in_progress}]
       /\ result' = "ok"
       /\ UNCHANGED <<now, chat_logs, message_sentiments, user_profiles,
                      user_achievements, future_messages, user_feedback,
                      sentiment_pipeline, memory_capsules, capsule_entries,
                      managers, theme_response>>

\* the keys of valid_categories
valid_categories ==
    {"total_entries", "streak", "words", "reflection", "achievements"}

Categories == valid_categories \cup {"longest_streak"}

MaxLimit == 2

\* the column valid_categories maps a category to, as a rational
CategoryColumn(profile, category) ==
    CASE category = "total_entries" -> Rat(profile.total_entries, 1)
      [] category = "streak" -> Rat(profile.streak_days, 1)
      [] category = "words" -> Rat(profile.total_words, 1)
      [] category = "reflection" -> profile.reflection_score

\* the attributes of a UserProfile object
ProfileAttributes ==
    {"id", "user_id", "username", "total_entries", "total_words",
     "avg_sentiment", "streak_days", "longest_streak", "last_entry_date",
     "reflection_score", "created_at", "updated_at", "achievements"}

\* the rows of the achievements query: one per profile that has
\* user_achievements rows, with the number of those rows
AchievementCounts ==
    {[username |-> p.username, user_id |-> p.user_id,
      value |-> Rat(Cardinality(ProfileAchievements(p.user_id)), 1)] :
        p \in {q \in user_profiles : ProfileAchievements(q.user_id) # {}}}

\* the rows of the query of the other categories
ColumnRows(category) ==
    {[username |-> p.username, user_id |-> p.user_id,
      value |-> CategoryColumn(p, category)] : p \in user_profiles}

\* ORDER BY value DESC LIMIT limit: every order of the rows that descends
\* by value (rows of equal value come in any order), cut at limit
Ranked(rows, limit) ==
    {SubSeq(s, 1, Min2(limit, Len(s))) :
        s \in {t \in [1..Cardinality(rows) -> rows] :
                  /\ \A i, j \in 1..Cardinality(rows) : i # j => t[i] # t[j]
                  /\ \A i \in 1..(Cardinality(rows) - 1) :
                        RLeq(t[i + 1].value, t[i].value)}}

\* get_leaderboard(category, limit)
GetLeaderboard(category, limit) ==
    /\ IF category \notin valid_categories
       THEN /\ result' = "raised"
            /\ returned' = [op |-> "get_leaderboard", category |-> category,
                            limit |-> limit, error |-> "ValueError"]
       ELSE IF category = "achievements"
       THEN /\ result' = "ok"
            /\ \E leaderboard \in Ranked(AchievementCounts, limit) :
                  returned' = [op |-> "get_leaderboard",
                               category |-> category, limit |-> limit,
                               error |-> "none", leaderboard |-> leaderboard]
       ELSE \E leaderboard \in Ranked(ColumnRows(category), limit) :
               IF leaderboard # <<>> /\ category \notin ProfileAttributes
               THEN /\ result' = "raised"
                    /\ returned' = [op |-> "get_leaderboard",
                                    category |-> category, limit |-> limit,
                                    error |-> "AttributeError"]
               ELSE /\ result' = "ok"
                    /\ returned' = [op |-> "get_leaderboard",
                                    category |-> category, limit |-> limit,
                                    error |-> "none",
                                    leaderboard |-> leaderboard]
    /\ UNCHANGED <<now, chat_logs, message_sentiments, user_profiles,
                   user_achievements, future_messages, user_feedback,
                   sentiment_pipeline, memory_capsules, capsule_entries,
                   managers, theme_response>>

NextBoard ==
    \/ \E u \in Users, t \in Texts : LogEntry(u, t, FALSE)
    \/ \E u \in Users : UpdateProfileStats(u)
    \/ \E u \in Users : GetProfileData(u)
    \/ \E category \in Categories, limit \in 1..MaxLimit :
          GetLeaderboard(category, limit)

SpecBoard == Init /\ [][NextBoard]_vars

----------------------------------------------------------------------------
(* bot.py: the daily check_inactive_users scan *)

InactiveDays == 7

\* query(ChatLog.user_id, ChatLog.username).distinct()
all_users ==
    {[user_id |-> e.user_id, username |-> e.username] : e \in chat_logs}

\* the timestamp of the latest entry of u is before the cutoff
IsInactive(u) ==
    LET entries == EntriesOf(u)
    IN /\ entries # <<>>
       /\ MaxOfSet({entries[i].date : i \in 1..Len(entries)})
             < now - InactiveDays

\* one run of check_inactive_users.  unsent: the rows of all_users for
\* which the prompt generation or the direct message fails (the exception
\* is logged and the loop goes on).  prompts: the messages sent, each to
\* the user id of its row and greeting the row's username
CheckInactiveUsers(unsent) ==
    /\ unsent \subseteq all_users
    /\ returned' = [op |-> "check_inactive_users",
                    prompts |-> {row \in all_users \ unsent :
                                    IsInactive(row.user_id)}]
    /\ result' = "ok"
    /\ UNCHANGED <<now, chat_logs, message_sentiments, user_profiles,
                   user_achievements, future_messages, user_feedback,
                   sentiment_pipeline, memory_capsules, capsule_entries,
                   managers, theme_response>>

\* The journal before a scan: up to MaxScanHist entries written on days
\* 0..1 by log_entry or on_message, and the scan runs a week later
MaxScanHist == 2
ScanDays == {InactiveDays, InactiveDays + 1, InactiveDays + 2}

ScanHistories ==
    UNION {{h \in [1..n -> [user_id : Users, by_message : BOOLEAN,
                            date : {0, 1}]] :
              \A i \in 1..(n - 1) : h[i].date <= h[i + 1].date} :
           n \in 0..MaxScanHist}

ScanLogs(h) ==
    {[id |-> i, user_id |-> h[i].user_id,
      username |-> IF h[i].by_message THEN AuthorName(h[i].user_id)
                   ELSE h[i].user_id,
      text |-> "glad", words |-> WordCount("glad"), date |-> h[i].date] :
        i \in 1..Len(h)}

InitScan ==
    /\ \E h \in ScanHistories :
          /\ chat_logs = ScanLogs(h)
          /\ message_sentiments =
                {create_sentiment_record(e.id, e.id, Classify(e.text)) :
                    e \in ScanLogs(h)}
    /\ now \in ScanDays
    /\ user_profiles = {}
    /\ user_achievements = {}
    /\ future_messages = {}
    /\ user_feedback = {}
    /\ result = "ok"
    /\ returned = NoValue
    /\ sentiment_pipeline = <<>>
    /\ memory_capsules = {}
    /\ capsule_entries = {}
    /\ managers = IdleManagers
    /\ theme_response = NoValue

NextScan ==
    \/ \E unsent \in SUBSET all_users : CheckInactiveUsers(unsent)
    \/ \E u \in Users, t \in Texts : LogEntry(u, t, FALSE)
    \/ \E u \in Users, t \in Texts : OnMessage(u, t, FALSE, FALSE)
    \/ \E u \in Users : ClearJournal(u, "journal")

SpecScan == InitScan /\ [][NextScan]_vars

----------------------------------------------------------------------------
(* Properties *)

Hundred == Rat(100, 1)
IsEarned(ua) == REq(ua.progress, Hundred)
RowsOf(u, achievement_id) ==
    {ua \in user_achievements :
        ua.user_id = u /\ ua.achievement_id = achievement_id}
ProfileFieldTypes ==
    {"total_entries", "streak", "reflection_score", "total_words"}

\* C1: once the profile counts at least criteria_value entries, the pass
\* that ran on it has recorded every total_entries achievement as earned
\* (progress 100), also when an earlier pass stored progress 0 for it.
C1_EarnedWhenCriteriaMet ==
    \A u \in Users : \A id \in AchievementIds :
        (/\ HasProfile(u)
         /\ AchievementById(id).criteria_type = "total_entries"
         /\ ProfileOf(u).total_entries >= AchievementById(id).criteria_value
         /\ RowsOf(u, id) # {})
        => \E ua \in RowsOf(u, id) : IsEarned(ua)

\* C2: after every evaluation pass for a user, each of the user's rows that
\* is not earned stores the progress computed from the values of that pass.
C2_ProgressOverwritten ==
    [][\A u \in Users :
          (CheckAchievements(u) \/ UpdateProfileStats(u))
          => (\A ua \in ProfileAchievements(u) :
                 ~IsEarned(ua)
                 => REq(ua.progress,
                        Evaluate(AchievementById(ua.achievement_id),
                                 ProfileOf(u), now).progress))']_vars

\* C3: a row has earned_at set only if its progress is 100.
C3_EarnedAtOnlyWhenEarned ==
    \A ua \in user_achievements : ua.earned_at # NoDate => IsEarned(ua)

\* C4: an earned row is kept unchanged (progress 100, same earned_at) by
\* every step, and no pass evaluates its pair again.
C4_NotRevocable ==
    [][\A ua \in user_achievements :
          IsEarned(ua)
          => /\ ua \in user_achievements'
             /\ ua.achievement_id
                   \notin EvaluatedIds(ProfileAchievements(ua.user_id))]_vars

\* an earned First Step whose owner's entries are gone, seen by a later
\* recomputation on a later day
C4_Witness ==
    \E ua \in user_achievements :
        /\ IsEarned(ua)
        /\ ua.achievement_id = 1
        /\ HasProfile(ua.user_id)
        /\ ProfileOf(ua.user_id).total_entries = 0
        /\ now > ua.earned_at

\* C5: at most one row per (user_id, achievement_id).
C5_OneRowPerPair ==
    \A a \in user_achievements, b \in user_achievements :
        (a.user_id = b.user_id /\ a.achievement_id = b.achievement_id) => a = b

\* both users have rows, and one of them has been evaluated again after the
\* rows were stored: the profile counts an entry the stored progress does not
C5_Witness ==
    /\ \A u \in Users : ProfileAchievements(u) # {}
    /\ \E u \in Users :
          /\ ProfileOf(u).total_entries >= 1
          /\ \E ua \in RowsOf(u, 1) : ~IsEarned(ua) /\ ua.earned_at < now

\* the profile field a criteria_type reads, as a rational
CurrentValue(profile, criteria_type) ==
    CASE criteria_type = "total_entries" -> Rat(profile.total_entries, 1)
      [] criteria_type = "streak" -> Rat(profile.streak_days, 1)
      [] criteria_type = "reflection_score" -> profile.reflection_score
      [] criteria_type = "total_words" -> Rat(profile.total_words, 1)

\* min(100, 100 * current_value / criteria_value)
ProgressFormula(current_value, criteria_value) ==
    RMin(Hundred,
         Rat(100 * current_value.num, current_value.den * criteria_value))

\* C6: every stored progress lies in [0,100], and a row a pass writes for a
\* pair that is not earned, of a criteria_type read from the profile, holds
\* min(100, 100 * current_value / criteria_value) of the profile of that pass.
C6_ProgressFormula ==
    /\ [](\A ua \in user_achievements :
             RLeq(Rat(0, 1), ua.progress) /\ RLeq(ua.progress, Hundred))
    /\ [][\A ua \in user_achievements' \ user_achievements :
             LET a == AchievementById(ua.achievement_id)
             IN (~IsEarned(ua) /\ a.criteria_type \in ProfileFieldTypes)
                => REq(ua.progress,
                       ProgressFormula(
                           CurrentValue(ProfileOf(ua.user_id)', a.criteria_type),
                           a.criteria_value))]_vars

\* a pass has stored partial progress computed from a reflection score and
\* from a word count
C6_Witness ==
    \E a \in user_achievements, b \in user_achievements :
        /\ AchievementById(a.achievement_id).criteria_type = "reflection_score"
        /\ AchievementById(b.achievement_id).criteria_type = "total_words"
        /\ RLt(Rat(0, 1), a.progress) /\ RLt(a.progress, Hundred)
        /\ RLt(Rat(0, 1), b.progress) /\ RLt(b.progress, Hundred)

\* the calendar days on which the user has an entry
DaysOf(u) == {e.date : e \in {x \in chat_logs : x.user_id = u}}

\* the length of the run of consecutive days of S that ends on day d
RunEndingAt(S, d) ==
    Cardinality({k \in 1..Cardinality(S) : \A j \in 0..(k - 1) : (d - j) \in S})

LongestRun(S) ==
    IF S = {} THEN 0 ELSE MaxOfSet({RunEndingAt(S, d) : d \in S})

\* the profile of u holds the statistics of an update_profile_stats run
StatsComputed(u) ==
    /\ HasProfile(u)
    /\ EntriesOf(u) = <<>> \/ ProfileOf(u).last_entry_date # NoDate

\* C7: longest_streak is the longest run of consecutive calendar days among
\* the entry dates, several entries of one day counting as one day.
C7_LongestStreak ==
    \A u \in Users :
        StatsComputed(u) => ProfileOf(u).longest_streak = LongestRun(DaysOf(u))

\* C8: streak_days is the run of consecutive calendar days that ends on the
\* most recent entry date, and 0 when that date is more than 1 day before
\* now or there is no entry.
C8_CurrentStreak ==
    \A u \in Users :
        StatsComputed(u)
        => ProfileOf(u).streak_days =
              (IF DaysOf(u) = {} \/ now - MaxOfSet(DaysOf(u)) > 1
               THEN 0
               ELSE RunEndingAt(DaysOf(u), MaxOfSet(DaysOf(u))))

\* C9: the profile update_profile_stats leaves is the one a run over the
\* same entries from a newly created profile leaves: no statistic depends on
\* the values the profile held before.
C9_RecomputedFromHistory ==
    [][\A u \in Users :
          UpdateProfileStats(u)
          => (ProfileOf(u) =
                 UpdatedProfile(NewUserProfile(u, AuthorName(u)), now))']_vars

SubmitErrors == {"raised", "error_reply"}

\* C10: a submission whose classification raises ends in an error for the
\* caller, a run that ends in an error changes no committed entry and no
\* committed sentiment, and no entry is ever visible without a sentiment.
C10_AtomicSubmit ==
    /\ [](\A e \in chat_logs : HasSentiment(e))
    /\ [][result' \in SubmitErrors
          => (chat_logs' = chat_logs
              /\ message_sentiments' = message_sentiments)]_vars
    /\ [][\A u \in Users, t \in Texts :
             /\ LogEntry(u, t, TRUE) => result' = "raised"
             /\ OnMessage(u, t, FALSE, TRUE) => result' = "error_reply"]_vars

\* a submission has failed while an earlier entry and its sentiment are stored
C10_Witness ==
    /\ result \in SubmitErrors
    /\ \E e \in chat_logs : HasSentiment(e)

\* C11: every stored sentiment row is linked to exactly one existing entry,
\* every entry has exactly one sentiment row, and that row holds the analysis
\* of the entry's own text.
C11_SentimentPerEntry ==
    /\ \A s \in message_sentiments :
          Cardinality({e \in chat_logs : e.id = s.chat_log_id}) = 1
    /\ \A e \in chat_logs :
          /\ Cardinality(SentimentsOf(e)) = 1
          /\ \E t \in Texts :
                /\ WordCount(t) = e.words
                /\ Sentiment(e).emotions = analyze(Classify(t)).emotions

RClamp(x, lo, hi) == RMax(lo, RMin(hi, x))

\* the mean of the named channels of a profile, as a fraction of 1
ChannelMean(profile_emotions, names) ==
    Rat(SumSeq([i \in 1..Len(names) |-> profile_emotions[names[i]]]),
        Len(names) * ScoreScale)

\* C12: analyze returns all 8 channels in [0,1] and a compound_score in
\* [-1,1] that equals clamp(mean(joy, trust, anticipation) - mean(fear,
\* sadness, disgust, anger), -1, 1) of the returned channels.
C12_CompoundFromChannels ==
    (returned.op = "analyze" /\ ~returned.raised)
    => LET v == returned.value
       IN /\ \A c \in ChannelSet : 0 <= v.emotions[c] /\ v.emotions[c] <= ScoreScale
          /\ -CompoundDen <= v.compound_score /\ v.compound_score <= CompoundDen
          /\ REq(Rat(v.compound_score, CompoundDen),
                 RClamp(RSub(ChannelMean(v.emotions,
                                         <<"joy", "trust", "anticipation">>),
                             ChannelMean(v.emotions,
                                         <<"fear", "sadness", "disgust", "anger">>)),
                        Rat(-1, 1), Rat(1, 1)))

\* analyze has returned a profile with a positive and a negative channel
\* set, the negative one outweighing
C12_Witness ==
    /\ returned.op = "analyze" /\ ~returned.raised
    /\ returned.value.emotions["joy"] > 0
    /\ returned.value.emotions["fear"] > 0
    /\ returned.value.compound_score < 0

\* the scores the pipeline gave to the labels mapped to a channel
MappedScores(c) ==
    {sentiment_pipeline[i].score :
        i \in {j \in 1..Len(sentiment_pipeline) :
                  sentiment_pipeline[j].label \in plutchik_mapping[c]}}

\* C13: each channel of _aggregate_emotions is the maximum of the scores of
\* the labels mapped to it that are present, and 0 when none is present.
C13_ChannelIsMax ==
    returned.op = "_aggregate_emotions"
    => \A c \in ChannelSet :
          returned.value[c] =
              (IF MappedScores(c) = {} THEN 0 ELSE MaxOfSet(MappedScores(c)))

\* two labels of one channel were scored, the larger first, next to nothing
\* else that is mapped
C13_Witness ==
    /\ returned.op = "_aggregate_emotions"
    /\ Len(sentiment_pipeline) = 2
    /\ sentiment_pipeline[1].label = "love"
    /\ sentiment_pipeline[2].label = "joy"
    /\ sentiment_pipeline[1].score > sentiment_pipeline[2].score
    /\ sentiment_pipeline[2].score > 0

\* the profile of an empty label set: every value 0.0
ZeroProfile ==
    [emotions |-> [c \in ChannelSet |-> 0], compound_score |-> 0,
     intensity |-> 0, confidence |-> 0]

\* C14: for an empty label set analyze returns the all-zero profile and does
\* not fail, and log_entry with such a classification stores the entry with
\* a sentiment row.
C14_EmptyLabelSet ==
    /\ [](sentiment_pipeline = <<>>
          => /\ result # "raised"
             /\ returned.op = "analyze" => returned.value = ZeroProfile)
    /\ [][\A u \in Users, t \in Texts :
             (sentiment_pipeline = <<>> /\ LogEntryClassified(u, t))
             => (\E e \in chat_logs' : HasSentiment(e)')]_vars

\* C15: get_emotional_trends returns one dominant channel per
\* sentiment-bearing entry of the window, in ascending timestamp order: a
\* channel of maximum value of that entry's profile, and among several of
\* maximum value the earliest of joy, trust, fear, surprise, sadness,
\* disgust, anger, anticipation.
C15_DominantSequence ==
    returned.op = "get_emotional_trends" =>
        LET es == SelectSeq(WindowEntries(returned.user_id, returned.days),
                            HasSentiment)
            dom == returned.value.dominant_emotions
        IN /\ Len(dom) = Len(es)
           /\ \A i \in 1..(Len(es) - 1) : es[i].date <= es[i + 1].date
           /\ \A i \in 1..Len(es) :
                 LET em == Sentiment(es[i]).emotions
                 IN \E k \in 1..Len(Channels) :
                       /\ dom[i] = Channels[k]
                       /\ returned.value.dates[i] = es[i].date
                       /\ \A c \in ChannelSet : em[c] <= em[dom[i]]
                       /\ \A j \in 1..(k - 1) : em[Channels[j]] < em[dom[i]]

\* a run over a window of two entries whose second scores joy and fear alike
C15_Witness ==
    /\ returned.op = "get_emotional_trends"
    /\ Len(returned.value.dominant_emotions) >= 2
    /\ LET es == SelectSeq(WindowEntries(returned.user_id, returned.days),
                           HasSentiment)
       IN /\ Sentiment(es[2]).emotions["joy"] = Sentiment(es[2]).emotions["fear"]
          /\ Sentiment(es[2]).emotions["joy"] > 0
          /\ returned.value.dominant_emotions[2] = "joy"
          /\ returned.value.dominant_emotions[1] # "joy"

\* the label the comparison of the first and last scores calls for: means
\* of the first 3 and last 3 scores, the single first and last score when
\* there are fewer than 3
DirectionOfMeans(scores) ==
    LET n == Len(scores)
        first == IF n >= 3 THEN SumSeq(SubSeq(scores, 1, 3)) ELSE 3 * scores[1]
        last == IF n >= 3 THEN SumSeq(SubSeq(scores, n - 2, n))
                ELSE 3 * scores[n]
    IN IF last > first THEN "improving"
       ELSE IF last < first THEN "declining" ELSE "stable"

\* C16: every trend-direction label reported for a non-empty sequence of
\* compound scores, by the history command and by the dashboard statistics,
\* is improving when the mean of the last 3 scores is greater than the mean
\* of the first 3 (the single last and first score when fewer than 3
\* exist), declining when it is less, and stable when the two are equal.
C16_TrendDirection ==
    /\ (/\ returned.op = "view_history"
        /\ returned.found
        /\ returned.compound_trend # <<>>)
          => returned.trend_direction = DirectionOfMeans(returned.compound_trend)
    /\ (/\ returned.op = "generate_mood_trends"
        /\ returned.success)
          => returned.sentiment_trend = DirectionOfMeans(returned.compound_scores)

\* the history command's label alone
C16_HistoryDirection ==
    (/\ returned.op = "view_history"
     /\ returned.found
     /\ returned.compound_trend # <<>>)
       => returned.trend_direction = DirectionOfMeans(returned.compound_trend)

\* the dashboard reports "declining" for two scores of which the last is
\* the greater
C16_DashboardTwoScores ==
    /\ returned.op = "generate_mood_trends"
    /\ returned.success
    /\ Len(returned.compound_scores) = 2
    /\ returned.compound_scores[2] > returned.compound_scores[1]
    /\ returned.sentiment_trend = "declining"

\* no entry of the user within the last `days` days has a sentiment profile
NoSentimentInWindow(u, days) ==
    SelectSeq(WindowEntries(u, days), HasSentiment) = <<>>

\* no entry of the user at all has a sentiment profile
NoSentimentAtAll(u) == SelectSeq(EntriesOf(u), HasSentiment) = <<>>

WindowSum(es, i) ==
    SumSeq([k \in 1..5 |-> Sentiment(es[i + k - 1]).compound_score])

\* the means of the windows starting at i - 1 and at i differ by more than
\* 0.5 in absolute value
MeansDifferByMoreThanHalf(es, i) ==
    2 * Abs(WindowSum(es, i) - WindowSum(es, i - 1)) > 5 * CompoundDen

C19_EventsDistinctAndSorted ==
    returned.op = "generate_life_story" =>
        /\ \A i, j \in 1..Len(returned.events) :
              i # j => returned.events[i].date # returned.events[j].date
        /\ \A i \in 1..(Len(returned.events) - 1) :
              returned.events[i].date <= returned.events[i + 1].date

\* the chronological order alone
C19_SortedByDate ==
    returned.op = "generate_life_story" =>
        \A i \in 1..(Len(returned.events) - 1) :
            returned.events[i].date <= returned.events[i + 1].date

\* a further update_profile_stats run over the same entries on the same
\* date, started with this profile and these user_achievements rows, leaves
\* both as they are: it recomputes the same profile, and its achievement
\* pass leaves the same rows
SecondRunChangesNothing(profile, rows) ==
    /\ UpdatedProfile(profile, now) = profile
    /\ CheckLoop(1, profile, {ua \in rows : ua.user_id = profile.user_id},
                 rows, now) = rows

\* C20: an update_profile_stats run (with its achievement pass) changes no
\* entry and no sentiment profile, and the state it leaves is one that a
\* second run for the same user, with the same entries on the same date,
\* leaves as it is: the same UserProfile and the same UserAchievement rows.
C20_Idempotent ==
    [][\A u \in Users :
          UpdateProfileStats(u)
          => /\ UNCHANGED <<now, chat_logs, message_sentiments>>
             /\ \E profile \in user_profiles' : profile.user_id = u
             /\ \A profile \in user_profiles' :
                   profile.user_id = u
                   => SecondRunChangesNothing(profile, user_achievements')]_vars

\* after a run over two or more entries the user holds an earned row and a
\* row with a progress between 0 and 100, and a second run changes nothing
C20_Witness ==
    /\ StatsComputed("u1")
    /\ ProfileOf("u1").total_entries >= 2
    /\ \E ua \in ProfileAchievements("u1") : IsEarned(ua)
    /\ \E ua \in ProfileAchievements("u1") :
          /\ RLt(Rat(0, 1), ua.progress)
          /\ RLt(ua.progress, Hundred)
    /\ \A profile \in user_profiles :
          profile.user_id = "u1"
          => SecondRunChangesNothing(profile, user_achievements)

\* what an update_profile_stats run for u leaves when it runs alone on the
\* journal at hand, from no profile: the profile, and the progress of each
\* achievement
SerialProfile(u) == UpdatedProfile(NewUserProfile(u, AuthorName(u)), now)
SerialProgress(u) ==
    {[achievement_id |-> ua.achievement_id, progress |-> ua.progress] :
        ua \in CheckLoop(1, SerialProfile(u), {}, {}, now)}

\* C21: when the update_profile_stats runs of two sessions have ended, the
\* store is the one a serial order of the runs leaves: one UserProfile per
\* user, one UserAchievement row per user and achievement, and the values
\* of one whole run.
C21_SerialOutcome ==
    (\A m \in Managers : managers[m].pc = "idle") =>
        \A u \in Users :
            /\ Cardinality({p \in user_profiles : p.user_id = u}) <= 1
            /\ \A a \in AchievementIds : Cardinality(RowsOf(u, a)) <= 1
            /\ HasProfile(u) => ProfileOf(u) = SerialProfile(u)
            /\ ProfileAchievements(u) # {}
                  => {[achievement_id |-> ua.achievement_id,
                       progress |-> ua.progress] :
                          ua \in ProfileAchievements(u)} = SerialProgress(u)

\* the profile side alone: never two profiles of one user
C21_OneProfilePerUser ==
    \A u \in Users : Cardinality({p \in user_profiles : p.user_id = u}) <= 1

\* C22: an update_profile_stats run in which an exception occurs, before
\* the statistics are committed or inside the achievement pass, leaves
\* user_profiles and user_achievements as they were before the run.
C22_FailedUpdateRolledBack ==
    [][\A u \in Users, stage \in FailStages :
          UpdateProfileStatsFails(u, stage)
          => UNCHANGED <<user_profiles, user_achievements>>]_vars

\* the achievement rows alone: a failed run leaves them as they were
C22_NoPartialProgressRows ==
    [][\A u \in Users, stage \in FailStages :
          UpdateProfileStatsFails(u, stage)
          => UNCHANGED user_achievements]_vars

\* the existing profile alone: a run that fails inside the pass leaves its
\* statistics as they were
C22_StatsRolledBackAfterFailedPass ==
    [][\A u \in Users :
          (/\ UpdateProfileStatsFails(u, "pass")
           /\ HasProfile(u))
          => UNCHANGED user_profiles]_vars

OthersRows(table, u) == {r \in table : r.user_id # u}

\* a clear command issued by u
ClearBy(u) ==
    \/ \E c \in {"none", "journal"} : ClearJournal(u, c)
    \/ \E n \in 1..(MaxLogs + 1) : ClearJournalEntry(u, n)
    \/ ClearFutureMessages(u)
    \/ \E n \in 1..(MaxLogs + 1) : ClearFutureMessage(u, n)

\* the reply to !history quotes entries of the caller only
HistoryOf(u) ==
    \A i \in 1..Len(returned'.history) :
        \E e \in chat_logs :
            /\ e.user_id = u
            /\ e.text = returned'.history[i].text
            /\ e.date = returned'.history[i].timestamp

\* the reply to !sentiment quotes entries of the caller only
SentimentOf(u) ==
    \A i \in 1..Len(returned'.logs) : returned'.logs[i].user_id = u

\* no reply of !history quotes an entry of another user
C24_HistoryScoped ==
    [][\A u \in Users, days \in Days :
          (ViewHistory(u, days) /\ returned'.found) => HistoryOf(u)]_vars

\* no reply of !sentiment quotes an entry of another user
C24_SentimentScoped ==
    [][\A u \in Users : GetSentiment(u) => SentimentOf(u)]_vars

\* no clear command removes an entry or a future message of another user
C24_ClearsScoped ==
    [][\A u \in Users :
          ClearBy(u)
          => /\ OthersRows(chat_logs, u) \subseteq chat_logs'
             /\ OthersRows(future_messages, u) \subseteq future_messages']_vars

\* C24: every command is scoped by the caller's user id: no reply quotes
\* the text or sentiment of an entry of another user, and no clear command
\* removes an entry or a future message of another user.
C24_UserScoped == C24_SentimentScoped /\ C24_HistoryScoped /\ C24_ClearsScoped

\* the entries of u in the last 30 days, and their compound scores
TrendEntries(u) ==
    SelectSeq(EntriesOf(u), LAMBDA e : e.date >= now - TrendWindowDays)

\* the least-squares slope of y over x = 0..n-1, as numerator and
\* denominator of the compound scale (n > 1)
LeastSquares(y) ==
    LET n == Len(y)
        sx == SumSeq([i \in 1..n |-> i - 1])
        sy == SumSeq(y)
        sxy == SumSeq([i \in 1..n |-> (i - 1) * y[i]])
        sxx == SumSeq([i \in 1..n |-> (i - 1) * (i - 1)])
    IN [num |-> n * sxy - sx * sy, den |-> (n * sxx - sx * sx) * CompoundDen]

\* current_value: the slope times 1000, clamped to [0, 100]
TrendValue(u) ==
    LET ls == LeastSquares(CompoundScores(TrendEntries(u)))
    IN RMax(Rat(0, 1), RMin(Rat(100, 1), Rat(TrendScale * ls.num, ls.den)))

SlopePositive(u) == LeastSquares(CompoundScores(TrendEntries(u))).num > 0

EnoughEntries(u) == Len(TrendEntries(u)) >= TrendMinEntries

\* the rows of the sentiment_trend achievements
TrendRows ==
    {ua \in user_achievements :
        AchievementById(ua.achievement_id).criteria_type = "sentiment_trend"}

\* C25: with at least 10 entries in the last 30 days the sentiment_trend
\* achievement is earned exactly when the slope is positive and the
\* current value (slope * 1000 clamped to [0, 100]) reaches the
\* achievement's criteria_value; an unearned achievement stores the current
\* value, and 0 with fewer than 10 entries.
C25_SentimentTrend ==
    \A ua \in TrendRows :
        LET v == AchievementById(ua.achievement_id).criteria_value
            earned == /\ EnoughEntries(ua.user_id)
                      /\ SlopePositive(ua.user_id)
                      /\ RLeq(Rat(v, 1), TrendValue(ua.user_id))
        IN /\ (ua.progress = Rat(100, 1)) <=> earned
           /\ ~earned => ua.progress = (IF EnoughEntries(ua.user_id)
                                        THEN TrendValue(ua.user_id)
                                        ELSE Rat(0, 1))

\* fewer than 10 entries in the window: not earned, progress 0
C25_FewEntries ==
    \A ua \in TrendRows :
        ~EnoughEntries(ua.user_id) => ua.progress = Rat(0, 1)

\* the code's test: earned exactly when the current value reaches 50
C25_EarnedAtFifty ==
    \A ua \in TrendRows :
        EnoughEntries(ua.user_id) =>
            /\ (ua.progress = Rat(100, 1)) <=>
                   /\ SlopePositive(ua.user_id)
                   /\ RLeq(Rat(TrendEarnedProgress, 1), TrendValue(ua.user_id))
            /\ ua.progress # Rat(100, 1) => ua.progress = TrendValue(ua.user_id)

\* a current value between the criteria_value and 50 was evaluated
C25_BetweenThresholds ==
    \E ua \in TrendRows :
        /\ EnoughEntries(ua.user_id)
        /\ RLeq(Rat(AchievementById(ua.achievement_id).criteria_value, 1),
                TrendValue(ua.user_id))
        /\ ~RLeq(Rat(TrendEarnedProgress, 1), TrendValue(ua.user_id))

\* C26: a successful delete_capsule leaves no entry-link of the capsule and
\* leaves the entries as they were; a delete_capsule by a user who does not
\* own the capsule fails and changes no capsule, no link and no entry.
C26_DeleteCapsule ==
    [][\A u \in Users, capsule_id \in CapsuleIds :
          DeleteCapsule(u, capsule_id)
          => /\ returned'.success
                => /\ \A l \in capsule_entries' : l.capsule_id # capsule_id
                   /\ chat_logs' = chat_logs
                   /\ \E c \in memory_capsules :
                         c.id = capsule_id /\ c.user_id = u
             /\ (\A c \in memory_capsules :
                    c.id = capsule_id => c.user_id # u)
                => /\ ~returned'.success
                   /\ memory_capsules' = memory_capsules
                   /\ capsule_entries' = capsule_entries
                   /\ chat_logs' = chat_logs]_vars

\* a capsule with an entry-link was deleted by its owner (link 1 is gone,
\* link 2 of another capsule is kept)
C26_Witness ==
    /\ returned.op = "delete_capsule"
    /\ returned.success
    /\ memory_capsules # {}
    /\ \E l \in capsule_entries : l.id = 2
    /\ \A l \in capsule_entries : l.id # 1
    /\ chat_logs = CapsuleLogs

\* every stored profile has streak_days <= longest_streak
C27_StreakWithinLongest ==
    \A p \in user_profiles : p.streak_days <= p.longest_streak

\* no step lowers the longest_streak of a stored profile
C27_LongestNeverDecreases ==
    [][\A p \in user_profiles : \A q \in user_profiles' :
          q.user_id = p.user_id => q.longest_streak >= p.longest_streak]_vars

\* C27: after every update_profile_stats streak_days <= longest_streak, and
\* across the updates of a user, with entries added and deleted in between,
\* longest_streak never decreases.
C27_Streaks == []C27_StreakWithinLongest /\ C27_LongestNeverDecreases

\* a profile updated after its entries were deleted keeps a longest streak
\* of several days
C27_Witness ==
    \E p \in user_profiles :
        /\ p.longest_streak >= 2
        /\ p.streak_days = 0
        /\ p.total_entries = 0
        /\ EntriesOf(p.user_id) = <<>>

\* the achievements u has earned: the rows with progress 100
EarnedBy(u) ==
    {ua \in ProfileAchievements(u) : REq(ua.progress, Rat(100, 1))}

\* every achievement listed under earned_achievements has a row with
\* progress 100
C28_EarnedListed ==
    [][\A u \in Users :
          (GetProfileData(u) /\ returned'.found)
          => \A item \in returned'.earned_achievements :
                \E ua \in EarnedBy(u) :
                    ua.achievement_id = item.achievement_id]_vars

\* no achievement is listed under both earned_achievements and in_progress
C28_ListsDisjoint ==
    [][\A u \in Users :
          (GetProfileData(u) /\ returned'.found)
          => \A item \in returned'.earned_achievements :
                \A other \in returned'.in_progress :
                    other.achievement_id # item.achievement_id]_vars

\* the achievements leaderboard counts the earned achievements of a user
C28_LeaderboardCountsEarned ==
    [][\A limit \in 1..MaxLimit :
          GetLeaderboard("achievements", limit)
          => \A i \in 1..Len(returned'.leaderboard) :
                returned'.leaderboard[i].value =
                    Rat(Cardinality(EarnedBy(
                            returned'.leaderboard[i].user_id)), 1)]_vars

\* C28: get_profile_data lists under earned_achievements only achievements
\* whose row has progress 100, so none is in both lists, and the
\* achievements leaderboard counts only earned achievements.
C28_OnlyEarned ==
    C28_EarnedListed /\ C28_ListsDisjoint /\ C28_LeaderboardCountsEarned

\* every row listed under in_progress has a progress below 100
C28_InProgressBelow100 ==
    [][\A u \in Users :
          (GetProfileData(u) /\ returned'.found)
          => \A item \in returned'.in_progress :
                RLt(item.progress, Rat(100, 1))]_vars

\* the rows of a leaderboard descend by value and are at most limit
IsRanked(leaderboard, limit) ==
    /\ Len(leaderboard) <= limit
    /\ \A i \in 1..(Len(leaderboard) - 1) :
          RLeq(leaderboard[i + 1].value, leaderboard[i].value)

\* C29: get_leaderboard returns a ranked list of at most limit rows for
\* each of total_entries, streak, words, reflection and achievements, and
\* raises ValueError exactly for any other category.
C29_Leaderboard ==
    [][\A category \in Categories, limit \in 1..MaxLimit :
          GetLeaderboard(category, limit)
          => IF category \in valid_categories
             THEN /\ result' = "ok"
                  /\ returned'.error = "none"
                  /\ IsRanked(returned'.leaderboard, limit)
             ELSE /\ result' = "raised"
                  /\ returned'.error = "ValueError"]_vars

\* ValueError is raised exactly for the categories outside valid_categories
C29_ValueErrorOutside ==
    [][\A category \in Categories, limit \in 1..MaxLimit :
          GetLeaderboard(category, limit)
          => (returned'.error = "ValueError"
              <=> category \notin valid_categories)]_vars

\* whatever is returned is ranked and at most limit rows long
C29_ReturnedRanked ==
    [][\A category \in Categories, limit \in 1..MaxLimit :
          (GetLeaderboard(category, limit) /\ returned'.error = "none")
          => IsRanked(returned'.leaderboard, limit)]_vars

\* a step is one run of the scan
ScanRuns == \E unsent \in SUBSET all_users : CheckInactiveUsers(unsent)

\* a prompt is sent only to a user whose latest entry is more than 7 days old
C30_OnlyInactivePrompted ==
    [][ScanRuns =>
          \A prompt \in returned'.prompts :
              \A e \in chat_logs :
                  e.user_id = prompt.user_id => now - e.date > InactiveDays]_vars

\* a user is sent at most one prompt in a run
C30_OnePromptPerUser ==
    [][ScanRuns =>
          \A prompt \in returned'.prompts : \A other \in returned'.prompts :
              other.user_id = prompt.user_id => other = prompt]_vars

\* the scan writes no table
C30_ScanWritesNothing ==
    [][ScanRuns =>
          UNCHANGED <<chat_logs, message_sentiments, user_profiles,
                      user_achievements, future_messages,
                      user_feedback>>]_vars

\* C30: in one run of check_inactive_users a user is sent a prompt only if
\* their latest entry is more than 7 days old, at most one prompt is sent
\* to a user (also when their entries carry different usernames), and the
\* scan writes no entry, sentiment or profile.
C30_InactiveScan ==
    C30_OnlyInactivePrompted /\ C30_OnePromptPerUser /\ C30_ScanWritesNothing

====
